---- MODULE Spec2Model ----
(***************************************************************************)
(* State-machine model of the visualization interop layer:                 *)
(*   - the id-keyed graph registries                    -> SpecToolkit     *)
(*   - the window.* slot modules and the vis.js                            *)
(*     NetworkGraphInterop singleton                    -> SpecSlots       *)
(*   - the vis.js timeline module (timelineInstances, shipment playback)   *)
(*                                                      -> SpecVis         *)
(*   - the TimelineViz toolkit class (playback timer)   -> SpecViz         *)
(*   - the financial-dashboard shipment timeline        -> SpecFin         *)
(*   - NetworkGraph.findShortestPath                    -> SpecPath        *)
(***************************************************************************)
EXTENDS Integers, Sequences, FiniteSets, TLC

\* ------------------------------------------------------------------ bounds
MaxWidgets == 2
MaxTimelines == 2
MaxItems == 2
MaxHandles == 2

\* event-point elements a TimelineViz holds at most
MaxPoints == 4

\* nodes of the graph findShortestPath searches, and links it holds at most
NumNodes == 3

MaxLinks == 3

\* graph models handed to loadData: node ids, links, and loadData calls
MaxLoadNodes == 2

MaxLoadLinks == 2

MaxLoads == 2

\* markers on a map, and locations in one addMarkers / addIncidentClusters call
MaxMarkers == 2

MaxLocations == 2

\* items in the array handed to burst and gap detection
MaxEvents == 5

\* callback handles the host holds
MaxRefs == 2

\* time unit of the item start times: half an hour
\* detectBursts: threshold = 5 events, timeWindow = 1 hour
BurstThreshold == 5

TimeWindow == 2

\* detectGaps: threshold = 24 hours
GapThreshold == 48

\* ------------------------------------------------------------ environment
\* DOM: ids for which document.getElementById returns an element
ExistingContainers == {"c1"}
\* an id that resolves to no element
MissingContainer == "nope"
ContainerIds == ExistingContainers \cup {MissingContainer}
\* outcomes of `graph_${Date.now()}_${Math.random()...}`
GraphIds == {"g1", "g2"}
Layouts == {"force", "radial"}
\* container ids handed to the vis.js timeline module
TimelineContainers == {"t1", "t2"}
TimelineContainerIds == TimelineContainers \cup {MissingContainer}
\* number of items handed to a timeline: none, or several
ItemCounts == {0, MaxItems}

VARIABLES
    \* ---- widget entry points
    widgets,          \* every NetworkGraph / TimelineViz / vis.Network constructed so far
    networkGraphs,    \* toolkits/interop.js  Map graphId -> NetworkGraph
    graphInstances,   \* incidentGeoMappingInterop.js Map graphId -> NetworkGraph
    slots,            \* window.intelGraph, window.intelTimeline, window.criminalGraph
    network,          \* NetworkGraphInterop: let network
    tkTimelines,      \* toolkits/interop.js  Map timelineId -> TimelineViz
    geoMaps,          \* toolkits/interop.js  Map mapId -> GeoMapViz
    last,             \* the last host call: operation, key, whether the target was Ready, result
    prev,             \* the host call before it
    \* ---- vis.js timeline module (part_001)
    timelines,        \* every vis.Timeline constructed so far
    timelineInstances,\* Map containerId -> vis.Timeline
    shipmentTimelinePlayback, \* { interval, currentIndex, isPlaying, containerId }
    intervals,        \* the setInterval callbacks that are scheduled, with what they captured
    \* ---- one TimelineViz instance (toolkits/timelineViz.js)
    viz,              \* events, isPlaying, playbackIndex, playbackTimer, highlight, destroyed
    vizTimers,        \* handles of the intervals play() scheduled that were not cleared
    vizNextHandle,    \* the handle the next setInterval returns
    \* ---- shipment timeline of financialCrimeDashboardInterop.js
    fdTimelines,      \* every vis.Timeline it constructed, with its _playInterval
    shipmentTimeline, \* window.shipmentTimeline: index into fdTimelines, 0 = null
    fdIntervals,      \* scheduled playback closures: handle, currentIndex, items
    fdNextHandle,     \* the handle the next setInterval returns
    \* ---- one NetworkGraph instance (incidentGeoMappingInterop.js)
    links,            \* this.links after loadData: source and target node ids
    pathCall,         \* the last findShortestPath call and what it returned
    graphNodes,       \* this.nodes: the node ids of the model handed to loadData
    rendered,         \* the data bound to the circle and line elements of the svg
    simulation,       \* this.simulation: handle of a d3 force simulation, 0 = null
    simulations,      \* the force simulations whose timer is running
    loads,            \* loadData calls made so far
    loadCall,         \* the last loadData call: its model and how it ended
    \* ---- one GeoMapViz instance (incidentGeoMappingInterop.js)
    mapMarkers,       \* the locations of the markers on the map, in the order added
    clusters,         \* this.clusters is set (L.markerClusterGroup was available)
    geoCall,          \* the last GeoMapViz call and how it ended
    \* ---- pattern detection of TimelineEnhancements (timeline-enhancements.js)
    items,            \* the array the caller holds and hands to the detection functions
    given,            \* that array as it was when the last call was made
    detectCall,       \* the last detection call and what it returned
    \* ---- criminalTimelineInterop.js and the host's callback handles
    dotNetReference,  \* the module variable: a DotNetObjectReference, 0 = null
    criminalTimeline, \* window.criminalTimeline holds a live TimelineViz
    comparisonTimeline, \* window.comparisonTimeline holds a live TimelineViz
    disposedRefs,     \* the handles on which dispose() has been called
    refCall,          \* the last method called on a handle, and whether it was disposed then
    \* ---- vis.js timeline module (part_001): listeners and the callback handle
    keydownListeners, \* the timelines a document keydown listener is bound to
    timelineDotNetReference, \* the module variable dotNetReference, 0 = null
    eventCall,        \* the last listener that ran, and the handle it invoked
    \* ---- the Leaflet wrapper (part_002)
    leafletMap,       \* let map: the element the global map was made on, "none" = undefined
    mapElements,      \* the elements that hold a Leaflet map
    baseLayers,       \* the keys of baseLayers that are set
    currentBaseLayer, \* let currentBaseLayer
    mapLayers,        \* the layers attached to the global map
    tradeRouteLayer,  \* let tradeRouteLayer is set
    leafletCall,      \* the last call and how it ended
    \* ---- NetworkGraphInterop.renderGraph (part_001)
    fallbackTimeouts, \* the 3-second timeouts that are scheduled and have not run
    timeoutCall       \* the last timeout callback that ran, and whether network was null

wvars == <<widgets, networkGraphs, graphInstances, slots, network>>

cvars == <<last, prev>>

vvars == <<timelines, timelineInstances, shipmentTimelinePlayback, intervals>>

tvars == <<viz, vizTimers, vizNextHandle>>

fvars == <<fdTimelines, shipmentTimeline, fdIntervals, fdNextHandle>>

pvars == <<links, pathCall>>

gvars == <<graphNodes, rendered, simulation, simulations, loads, loadCall>>

mvars == <<mapMarkers, clusters, geoCall>>

dvars == <<items, given, detectCall>>

hvars == <<dotNetReference, criminalTimeline, comparisonTimeline, disposedRefs, refCall>>

rvars == <<tkTimelines, geoMaps>>

kvars == <<keydownListeners, timelineDotNetReference, eventCall>>

lvars == <<leafletMap, mapElements, baseLayers, currentBaseLayer, mapLayers, tradeRouteLayer, leafletCall>>

nvars == <<fallbackTimeouts, timeoutCall>>

vars == <<wvars, cvars, vvars, tvars, fvars, pvars, gvars, mvars, dvars, hvars, rvars, kvars, lvars, nvars>>

\* -------------------------------------------------------------------
\*  Widget entry points
\* -------------------------------------------------------------------
SlotNames == {"intelGraph", "intelTimeline", "criminalGraph"}

\* pos: the playback position the call found (pause and stop only)
\* arg: what the call was given besides the key (focus and highlight calls only)
NoCall == [op |-> "none", key |-> "none", ready |-> FALSE, ret |-> "none", pos |-> 0, arg |-> "none"]

Call(op, key, ready, ret) ==
    [op |-> op, key |-> key, ready |-> ready, ret |-> ret, pos |-> 0, arg |-> "none"]

\* class constructors: NetworkGraph / TimelineViz throw when the container is missing
ContainerFound(c) == c \in ExistingContainers

NewWidget(kind, c, via) ==
    [kind |-> kind, container |-> c, via |-> via,
     destroyed |-> FALSE, loaded |-> FALSE, layout |-> "force",
     zoom |-> 0, selected |-> {}, emphasized |-> {}, dimmed |-> {}, wiped |-> FALSE]

CanConstruct == Len(widgets) < MaxWidgets

\* NetworkGraph.loadData / TimelineViz.loadData
LoadData(ws, i) == [ws EXCEPT ![i].loaded = TRUE]

\* NetworkGraph.changeLayout: sets options.layout, then the layout code
\* dereferences this.simulation, which is null until the first loadData
ChangeLayout(ws, i, l) == [ws EXCEPT ![i].layout = l]

ChangeLayoutThrows(ws, i) == ~ws[i].loaded

\* NetworkGraph.destroy / TimelineViz.destroy / vis.Network.destroy
Destroy_Every(ws, i) == [k \in DOMAIN ws |-> [ws[k] EXCEPT !.destroyed = TRUE]]

Destroy(ws, i) == [ws EXCEPT ![i].destroyed = TRUE]

\* no timeline constructed, registry empty, playback record as declared
VisInit ==
    /\ timelines = <<>>
    /\ timelineInstances = [c \in TimelineContainers |-> 0]
    /\ shipmentTimelinePlayback =
           [interval |-> 0, currentIndex |-> 0, isPlaying |-> FALSE, containerId |-> "null"]
    /\ intervals = {}

WidgetsInit ==
    /\ widgets = <<>>
    /\ networkGraphs = [id \in GraphIds |-> 0]
    /\ graphInstances = [id \in GraphIds |-> 0]
    /\ slots = [s \in SlotNames |-> 0]
    /\ network = 0

\* toolkits/interop.js at load: const timelines = new Map(); const geoMaps = new Map()
\* part_001 at load: let dotNetReference = null; no listener added
ListenersInit ==
    /\ keydownListeners = {}
    /\ timelineDotNetReference = 0
    /\ eventCall = [op |-> "none", timeline |-> 0, to |-> 0, own |-> 0, destroyed |-> FALSE]

\* part_002 at load: let map; let baseLayers = {}; let currentBaseLayer = 'osm'
LeafletInit ==
    /\ leafletMap = "none"
    /\ mapElements = {}
    /\ baseLayers = {}
    /\ currentBaseLayer = "osm"
    /\ mapLayers = {}
    /\ tradeRouteLayer = FALSE
    /\ leafletCall = [op |-> "none", ret |-> "none"]

\* NetworkGraphInterop at load: nothing scheduled
TimeoutsInit ==
    /\ fallbackTimeouts = 0
    /\ timeoutCall = [op |-> "none", networkIsNull |-> FALSE]

RegistriesInit ==
    /\ tkTimelines = [id \in GraphIds |-> 0]
    /\ geoMaps = [id \in GraphIds |-> 0]

CallsInit ==
    /\ last = NoCall
    /\ prev = NoCall

\* TimelineViz constructor: no events, nothing scheduled
VizInit ==
    /\ viz = [n |-> 0, loaded |-> FALSE, isPlaying |-> FALSE, playbackIndex |-> 0,
              playbackTimer |-> 0, highlight |-> 0, destroyed |-> FALSE, points |-> 0,
              lastTick |-> 0, domain |-> <<0, 0>>, asked |-> <<0, 0>>]
    /\ vizTimers = {}
    /\ vizNextHandle = 1

\* module load: window.shipmentTimeline is not set
FinInit ==
    /\ fdTimelines = <<>>
    /\ shipmentTimeline = 0
    /\ fdIntervals = {}
    /\ fdNextHandle = 1

\* a JavaScript null result, and a returned array
Null == [isNull |-> TRUE, path |-> <<>>]

Returned(path) == [isNull |-> FALSE, path |-> path]

NoPathCall == [called |-> FALSE, source |-> 0, target |-> 0, result |-> Null]

\* NetworkGraph constructor: this.links = []
GraphInit ==
    /\ links = <<>>
    /\ pathCall = NoPathCall

NoLoadCall == [op |-> "none", nodes |-> {}, links |-> <<>>, ok |-> FALSE,
               repeat |-> FALSE, running |-> 0]

\* NetworkGraph constructor: nothing loaded, this.simulation = null
LoadInit ==
    /\ graphNodes = {}
    /\ rendered = [nodes |-> {}, links |-> <<>>]
    /\ simulation = 0
    /\ simulations = {}
    /\ loads = 0
    /\ loadCall = NoLoadCall

\* GeoMapViz constructor: no markers; this.clusters is set when the
\* markercluster plugin is loaded
GeoConstructed(plugin) ==
    /\ mapMarkers = <<>>
    /\ clusters = plugin
    /\ geoCall = [op |-> "none", ret |-> "none"]

GeoInit == GeoConstructed(TRUE)

\* criminalTimelineInterop.js at load: let dotNetReference = null
RefsInit ==
    /\ dotNetReference = 0
    /\ criminalTimeline = FALSE
    /\ comparisonTimeline = FALSE
    /\ disposedRefs = {}
    /\ refCall = [op |-> "none", ref |-> 0, disposed |-> FALSE]

NoDetectCall == [op |-> "none", bursts |-> <<>>, gaps |-> <<>>]

\* the caller holds the array `held`; no detection call was made
DetectHolding(held) ==
    /\ items = held
    /\ given = held
    /\ detectCall = NoDetectCall

DetectInit == DetectHolding(<<>>)

InitAll ==
    /\ WidgetsInit /\ VisInit /\ VizInit /\ FinInit /\ GraphInit /\ LoadInit /\ GeoInit /\ CallsInit
    /\ DetectInit /\ RefsInit /\ RegistriesInit /\ ListenersInit /\ LeafletInit
    /\ TimeoutsInit

\* widget entry points keep the last two calls
Record(op, key, ready, ret) ==
    /\ last' = Call(op, key, ready, ret)
    /\ prev' = last

\* the other modules keep the last call only
RecordLast(op, key, ready, ret) ==
    /\ last' = Call(op, key, ready, ret)
    /\ UNCHANGED prev

\* a pause or stop call, with the playback position it found
RecordPos(op, key, ready, ret, pos) ==
    /\ last' = [Call(op, key, ready, ret) EXCEPT !.pos = pos]
    /\ UNCHANGED prev

\* a focus or highlight call, with what it was given
RecordArg(op, key, ready, ret, arg) ==
    /\ last' = [Call(op, key, ready, ret) EXCEPT !.arg = arg]
    /\ prev' = last

\* ---- toolkits/interop.js ------------------------------------------
Toolkit_initializeNetworkGraph(c, id) ==
    /\ ContainerFound(c) => CanConstruct
    /\ IF ContainerFound(c)
       THEN /\ widgets' = Append(widgets, NewWidget("NetworkGraph", c, "Toolkit_initializeNetworkGraph"))
            /\ networkGraphs' = [networkGraphs EXCEPT ![id] = Len(widgets) + 1]
            /\ Record("Toolkit_initializeNetworkGraph", c, FALSE, "id")
       ELSE /\ UNCHANGED <<widgets, networkGraphs>>
            /\ Record("Toolkit_initializeNetworkGraph", c, FALSE, "throws")
    /\ UNCHANGED <<graphInstances, slots, network, vvars, tvars, fvars, pvars, gvars, mvars, dvars, hvars, rvars, kvars, lvars, nvars>>

Toolkit_loadNetworkData(id) ==
    /\ IF networkGraphs[id] # 0
       THEN /\ widgets' = LoadData(widgets, networkGraphs[id])
            /\ Record("Toolkit_loadNetworkData", id, TRUE, "undefined")
       ELSE /\ UNCHANGED widgets
            /\ Record("Toolkit_loadNetworkData", id, FALSE, "undefined")
    /\ UNCHANGED <<networkGraphs, graphInstances, slots, network, vvars, tvars, fvars, pvars, gvars, mvars, dvars, hvars, rvars, kvars, lvars, nvars>>

Toolkit_changeNetworkLayout(id, l) ==
    /\ IF networkGraphs[id] # 0
       THEN /\ widgets' = ChangeLayout(widgets, networkGraphs[id], l)
            /\ Record("Toolkit_changeNetworkLayout", id, TRUE,
                      IF ChangeLayoutThrows(widgets, networkGraphs[id]) THEN "throws" ELSE "undefined")
       ELSE /\ UNCHANGED widgets
            /\ Record("Toolkit_changeNetworkLayout", id, FALSE, "undefined")
    /\ UNCHANGED <<networkGraphs, graphInstances, slots, network, vvars, tvars, fvars, pvars, gvars, mvars, dvars, hvars, rvars, kvars, lvars, nvars>>

Toolkit_destroyNetworkGraph(id) ==
    /\ IF networkGraphs[id] # 0
       THEN /\ widgets' = Destroy(widgets, networkGraphs[id])
            /\ networkGraphs' = [networkGraphs EXCEPT ![id] = 0]
            /\ Record("Toolkit_destroyNetworkGraph", id, TRUE, "undefined")
       ELSE /\ UNCHANGED <<widgets, networkGraphs>>
            /\ Record("Toolkit_destroyNetworkGraph", id, FALSE, "undefined")
    /\ UNCHANGED <<graphInstances, slots, network, vvars, tvars, fvars, pvars, gvars, mvars, dvars, hvars, rvars, kvars, lvars, nvars>>

\* initializeTimeline: the id is generated like the graph ids
Toolkit_initializeTimeline(c, id) ==
    /\ ContainerFound(c) => CanConstruct
    /\ IF ContainerFound(c)
       THEN /\ widgets' = Append(widgets, NewWidget("TimelineViz", c, "Toolkit_initializeTimeline"))
            /\ tkTimelines' = [tkTimelines EXCEPT ![id] = Len(widgets) + 1]
            /\ Record("Toolkit_initializeTimeline", c, FALSE, "id")
       ELSE /\ UNCHANGED <<widgets, tkTimelines>>
            /\ Record("Toolkit_initializeTimeline", c, FALSE, "throws")
    /\ UNCHANGED <<networkGraphs, graphInstances, slots, network, geoMaps, vvars, tvars, fvars, pvars, gvars, mvars, dvars, hvars, kvars, lvars, nvars>>

Toolkit_destroyTimeline(id) ==
    /\ IF tkTimelines[id] # 0
       THEN /\ widgets' = Destroy(widgets, tkTimelines[id])
            /\ tkTimelines' = [tkTimelines EXCEPT ![id] = 0]
            /\ Record("Toolkit_destroyTimeline", id, TRUE, "undefined")
       ELSE /\ UNCHANGED <<widgets, tkTimelines>>
            /\ Record("Toolkit_destroyTimeline", id, FALSE, "undefined")
    /\ UNCHANGED <<networkGraphs, graphInstances, slots, network, geoMaps, vvars, tvars, fvars, pvars, gvars, mvars, dvars, hvars, kvars, lvars, nvars>>

\* GeoMapViz.init and GeoMapViz.destroy set container.innerHTML = '': the
\* elements of every other live widget in the container are removed
WipeContainer(ws, c) ==
    [k \in DOMAIN ws |->
        IF ws[k].container = c /\ ~ws[k].destroyed THEN [ws[k] EXCEPT !.wiped = TRUE] ELSE ws[k]]

\* GeoMapViz.init clears the container when it holds a Leaflet map
HoldsLeafletMap(ws, c) ==
    \E k \in DOMAIN ws : ws[k].kind = "GeoMapViz" /\ ws[k].container = c /\ ~ws[k].destroyed /\ ~ws[k].wiped

Toolkit_initializeGeoMap(c, id) ==
    /\ ContainerFound(c) => CanConstruct
    /\ IF ContainerFound(c)
       THEN /\ widgets' = Append(IF HoldsLeafletMap(widgets, c) THEN WipeContainer(widgets, c) ELSE widgets,
                                 NewWidget("GeoMapViz", c, "Toolkit_initializeGeoMap"))
            /\ geoMaps' = [geoMaps EXCEPT ![id] = Len(widgets) + 1]
            /\ Record("Toolkit_initializeGeoMap", c, FALSE, "id")
       ELSE /\ UNCHANGED <<widgets, geoMaps>>
            /\ Record("Toolkit_initializeGeoMap", c, FALSE, "throws")
    /\ UNCHANGED <<networkGraphs, graphInstances, slots, network, tkTimelines, vvars, tvars, fvars, pvars, gvars, mvars, dvars, hvars, kvars, lvars, nvars>>

Toolkit_destroyGeoMap(id) ==
    /\ IF geoMaps[id] # 0
       THEN /\ widgets' = Destroy(WipeContainer(widgets, widgets[geoMaps[id]].container), geoMaps[id])
            /\ geoMaps' = [geoMaps EXCEPT ![id] = 0]
            /\ Record("Toolkit_destroyGeoMap", id, TRUE, "undefined")
       ELSE /\ UNCHANGED <<widgets, geoMaps>>
            /\ Record("Toolkit_destroyGeoMap", id, FALSE, "undefined")
    /\ UNCHANGED <<networkGraphs, graphInstances, slots, network, tkTimelines, vvars, tvars, fvars, pvars, gvars, mvars, dvars, hvars, kvars, lvars, nvars>>

\* ---- incidentGeoMappingInterop.js: graphInstances -------------------
Geo_initializeNetworkGraph(c, id) ==
    /\ ContainerFound(c) => CanConstruct
    /\ IF ContainerFound(c)
       THEN /\ widgets' = Append(widgets, NewWidget("NetworkGraph", c, "Geo_initializeNetworkGraph"))
            /\ graphInstances' = [graphInstances EXCEPT ![id] = Len(widgets) + 1]
            /\ Record("Geo_initializeNetworkGraph", c, FALSE, "id")
       ELSE \* catch (error) { ...; throw error; }
            /\ UNCHANGED <<widgets, graphInstances>>
            /\ Record("Geo_initializeNetworkGraph", c, FALSE, "throws")
    /\ UNCHANGED <<networkGraphs, slots, network, vvars, tvars, fvars, pvars, gvars, mvars, dvars, hvars, rvars, kvars, lvars, nvars>>

Geo_loadNetworkData(id) ==
    /\ IF graphInstances[id] # 0
       THEN /\ widgets' = LoadData(widgets, graphInstances[id])
            /\ Record("Geo_loadNetworkData", id, TRUE, "undefined")
       ELSE /\ UNCHANGED widgets
            /\ Record("Geo_loadNetworkData", id, FALSE, "undefined")
    /\ UNCHANGED <<networkGraphs, graphInstances, slots, network, vvars, tvars, fvars, pvars, gvars, mvars, dvars, hvars, rvars, kvars, lvars, nvars>>

Geo_destroyGraph(id) ==
    /\ IF graphInstances[id] # 0
       THEN /\ widgets' = Destroy(widgets, graphInstances[id])
            /\ graphInstances' = [graphInstances EXCEPT ![id] = 0]
            /\ Record("Geo_destroyGraph", id, TRUE, "undefined")
       ELSE /\ UNCHANGED <<widgets, graphInstances>>
            /\ Record("Geo_destroyGraph", id, FALSE, "undefined")
    /\ UNCHANGED <<networkGraphs, slots, network, vvars, tvars, fvars, pvars, gvars, mvars, dvars, hvars, rvars, kvars, lvars, nvars>>

\* ---- threatIntelligenceDashboardInterop.js ------------------------
Threat_initializeIntelligenceGraph(c) ==
    /\ ContainerFound(c) => CanConstruct
    /\ IF ContainerFound(c)
       THEN /\ widgets' = LoadData(Append(widgets, NewWidget("NetworkGraph", c, "Threat_initializeIntelligenceGraph")),
                                   Len(widgets) + 1)
            /\ slots' = [slots EXCEPT !["intelGraph"] = Len(widgets) + 1]
            /\ Record("Threat_initializeIntelligenceGraph", c, FALSE, "true")
       ELSE /\ UNCHANGED <<widgets, slots>>
            /\ Record("Threat_initializeIntelligenceGraph", c, FALSE, "false")
    /\ UNCHANGED <<networkGraphs, graphInstances, network, vvars, tvars, fvars, pvars, gvars, mvars, dvars, hvars, rvars, kvars, lvars, nvars>>

Threat_initializeIntelligenceTimeline(c) ==
    /\ ContainerFound(c) => CanConstruct
    /\ IF ContainerFound(c)
       THEN /\ widgets' = LoadData(Append(widgets, NewWidget("TimelineViz", c, "Threat_initializeIntelligenceTimeline")),
                                   Len(widgets) + 1)
            /\ slots' = [slots EXCEPT !["intelTimeline"] = Len(widgets) + 1]
            /\ Record("Threat_initializeIntelligenceTimeline", c, FALSE, "true")
       ELSE /\ UNCHANGED <<widgets, slots>>
            /\ Record("Threat_initializeIntelligenceTimeline", c, FALSE, "false")
    /\ UNCHANGED <<networkGraphs, graphInstances, network, vvars, tvars, fvars, pvars, gvars, mvars, dvars, hvars, rvars, kvars, lvars, nvars>>

Threat_changeIntelligenceGraphLayout(l) ==
    /\ IF slots["intelGraph"] # 0
       THEN /\ widgets' = ChangeLayout(widgets, slots["intelGraph"], l)
            /\ Record("Threat_changeIntelligenceGraphLayout", "intelGraph", TRUE,
                      IF ChangeLayoutThrows(widgets, slots["intelGraph"]) THEN "false" ELSE "true")
       ELSE /\ UNCHANGED widgets
            /\ Record("Threat_changeIntelligenceGraphLayout", "intelGraph", FALSE, "false")
    /\ UNCHANGED <<networkGraphs, graphInstances, slots, network, vvars, tvars, fvars, pvars, gvars, mvars, dvars, hvars, rvars, kvars, lvars, nvars>>

DestroySlots(ws, names) ==
    [i \in DOMAIN ws |->
        IF \E s \in names : slots[s] = i THEN [ws[i] EXCEPT !.destroyed = TRUE] ELSE ws[i]]

Threat_destroyIntelligenceVisualizations ==
    /\ widgets' = DestroySlots(widgets, {"intelGraph", "intelTimeline"})
    /\ slots' = [slots EXCEPT !["intelGraph"] = 0, !["intelTimeline"] = 0]
    /\ Record("Threat_destroyIntelligenceVisualizations", "intel",
              slots["intelGraph"] # 0 \/ slots["intelTimeline"] # 0, "true")
    /\ UNCHANGED <<networkGraphs, graphInstances, network, vvars, tvars, fvars, pvars, gvars, mvars, dvars, hvars, rvars, kvars, lvars, nvars>>

\* ---- criminalNetworkIntelligenceInterop.js ------------------------
Criminal_initializeCriminalNetwork(c) ==
    /\ ContainerFound(c) => CanConstruct
    /\ LET torn == DestroySlots(widgets, {"criminalGraph"})
       IN IF ContainerFound(c)
          THEN /\ widgets' = LoadData(Append(torn, NewWidget("NetworkGraph", c, "Criminal_initializeCriminalNetwork")),
                                      Len(widgets) + 1)
               /\ slots' = [slots EXCEPT !["criminalGraph"] = Len(widgets) + 1]
               /\ Record("Criminal_initializeCriminalNetwork", c, FALSE, "true")
          ELSE /\ widgets' = torn
               /\ slots' = [slots EXCEPT !["criminalGraph"] = 0]
               /\ Record("Criminal_initializeCriminalNetwork", c, FALSE, "false")
    /\ UNCHANGED <<networkGraphs, graphInstances, network, vvars, tvars, fvars, pvars, gvars, mvars, dvars, hvars, rvars, kvars, lvars, nvars>>

Criminal_changeNetworkLayout(l) ==
    /\ IF slots["criminalGraph"] # 0
       THEN /\ widgets' = ChangeLayout(widgets, slots["criminalGraph"], l)
            /\ Record("Criminal_changeNetworkLayout", "criminalGraph", TRUE,
                      IF ChangeLayoutThrows(widgets, slots["criminalGraph"]) THEN "false" ELSE "true")
       ELSE /\ UNCHANGED widgets
            /\ Record("Criminal_changeNetworkLayout", "criminalGraph", FALSE, "false")
    /\ UNCHANGED <<networkGraphs, graphInstances, slots, network, vvars, tvars, fvars, pvars, gvars, mvars, dvars, hvars, rvars, kvars, lvars, nvars>>

Criminal_destroyCriminalNetwork ==
    /\ widgets' = DestroySlots(widgets, {"criminalGraph"})
    /\ slots' = [slots EXCEPT !["criminalGraph"] = 0]
    /\ Record("Criminal_destroyCriminalNetwork", "criminalGraph", slots["criminalGraph"] # 0, "true")
    /\ UNCHANGED <<networkGraphs, graphInstances, network, vvars, tvars, fvars, pvars, gvars, mvars, dvars, hvars, rvars, kvars, lvars, nvars>>

\* ---- NetworkGraphInterop (vis.js network singleton) ---------------
NGI_initialize(c) ==
    /\ ContainerFound(c) => CanConstruct
    /\ IF ContainerFound(c)
       THEN /\ widgets' = Append(widgets, NewWidget("vis.Network", c, "NGI_initialize"))
            /\ network' = Len(widgets) + 1
            /\ Record("NGI_initialize", c, FALSE, "true")
       ELSE /\ UNCHANGED <<widgets, network>>
            /\ Record("NGI_initialize", c, FALSE, "false")
    /\ UNCHANGED <<networkGraphs, graphInstances, slots, vvars, tvars, fvars, pvars, gvars, mvars, dvars, hvars, rvars, kvars, lvars, nvars>>

\* renderGraph: after the data is added, setTimeout schedules the fallback
\* that stops the physics after 3 seconds; its handle is not kept
NGI_renderGraph ==
    /\ network # 0 => fallbackTimeouts < MaxHandles
    /\ IF network # 0
       THEN /\ widgets' = LoadData(widgets, network)
            /\ fallbackTimeouts' = fallbackTimeouts + 1
            /\ Record("NGI_renderGraph", "network", TRUE, "true")
       ELSE /\ UNCHANGED <<widgets, fallbackTimeouts>>
            /\ Record("NGI_renderGraph", "network", FALSE, "false")
    /\ UNCHANGED <<networkGraphs, graphInstances, slots, network, timeoutCall>>
    /\ UNCHANGED <<vvars, tvars, fvars, pvars, gvars, mvars, dvars, hvars, rvars, kvars, lvars>>

\* a fallback timeout fires: the callback reads the module variable network
\* and calls network.setOptions, network.stopSimulation and network.fit
NGI_fallbackTimeout ==
    /\ fallbackTimeouts > 0
    /\ fallbackTimeouts' = fallbackTimeouts - 1
    /\ timeoutCall' = [op |-> "timeout", networkIsNull |-> (network = 0)]
    /\ UNCHANGED <<wvars, cvars, vvars, tvars, fvars, pvars, gvars, mvars, dvars, hvars, rvars, kvars, lvars>>

NGI_destroy ==
    /\ IF network # 0
       THEN /\ widgets' = Destroy(widgets, network)
            /\ network' = 0
            /\ Record("NGI_destroy", "network", TRUE, "true")
       ELSE /\ UNCHANGED <<widgets, network>>
            /\ Record("NGI_destroy", "network", FALSE, "false")
    /\ UNCHANGED <<networkGraphs, graphInstances, slots, vvars, tvars, fvars, pvars, gvars, mvars, dvars, hvars, rvars, kvars, lvars, nvars>>

\* -------------------------------------------------------------------
\*  vis.js timeline module: timelineInstances and shipment playback
\* -------------------------------------------------------------------
\* ref: the dotNetRef argument of the initialize call that made it, 0 = none
NewTimeline(c, n) == [container |-> c, destroyed |-> FALSE, n |-> n, selection |-> 0, ref |-> 0]

CanConstructTimeline == Len(timelines) < MaxTimelines

\* a teardown that leaves the registered timeline alone
DestroyExisting_Skipped(tls, c) == tls

\* "Destroy existing timeline if it exists": existingTimeline.destroy(); timelineInstances.delete(containerId)
DestroyExisting(tls, c) ==
    IF timelineInstances[c] # 0
    THEN [tls EXCEPT ![timelineInstances[c]].destroyed = TRUE]
    ELSE tls

\* Both initialize functions: container lookup, teardown of the registered
\* timeline, conversion of the items (new vis.DataSet throws on a duplicate
\* id, after the teardown), construction, registration.
\* initializeEnhancedTimeline stores a dotNetRef that is not null in the
\* module variable before anything else; with useEnhancements the timeline
\* is made by TimelineEnhancements.initialize, whose addKeyboardNavigation
\* adds a keydown listener to the document.
InitializeTimeline(op, c, n, uniqueIds, bindPlayback, dotNetRef, useEnhancements) ==
    /\ (c \in TimelineContainers /\ uniqueIds) => CanConstructTimeline
    /\ timelineDotNetReference' = IF dotNetRef # 0 THEN dotNetRef ELSE timelineDotNetReference
    /\ IF c \notin TimelineContainers
       THEN /\ UNCHANGED <<timelines, timelineInstances, shipmentTimelinePlayback, keydownListeners>>
            /\ RecordLast(op, c, FALSE, "false")
       ELSE IF ~uniqueIds
       THEN /\ timelines' = DestroyExisting(timelines, c)
            /\ timelineInstances' = [timelineInstances EXCEPT ![c] = 0]
            /\ UNCHANGED <<shipmentTimelinePlayback, keydownListeners>>
            /\ RecordLast(op, c, FALSE, "false")
       ELSE /\ timelines' = Append(DestroyExisting(timelines, c),
                                   [NewTimeline(c, n) EXCEPT !.ref = dotNetRef])
            /\ timelineInstances' = [timelineInstances EXCEPT ![c] = Len(timelines) + 1]
            /\ keydownListeners' = IF useEnhancements
                                    THEN keydownListeners \cup {Len(timelines) + 1}
                                    ELSE keydownListeners
            /\ shipmentTimelinePlayback' =
                  IF bindPlayback
                  THEN [shipmentTimelinePlayback EXCEPT !.containerId = c]
                  ELSE shipmentTimelinePlayback
            /\ RecordLast(op, c, FALSE, "true")
    /\ UNCHANGED <<intervals, eventCall, wvars, tvars, fvars, pvars, gvars, mvars, dvars, hvars, rvars, lvars, nvars>>

initializeEnhancedTimeline(c, n, uniqueIds, dotNetRef, useEnhancements) ==
    InitializeTimeline("initializeEnhancedTimeline", c, n, uniqueIds, FALSE, dotNetRef, useEnhancements)

initializeBasicTimeline(c, n, uniqueIds, dotNetRef) ==
    InitializeTimeline("initializeBasicTimeline", c, n, uniqueIds, FALSE, dotNetRef, FALSE)

\* initializeShipmentTimeline takes no handle and adds no enhancements
initializeShipmentTimeline(c, n, uniqueIds) ==
    InitializeTimeline("initializeShipmentTimeline", c, n, uniqueIds, TRUE, 0, FALSE)

updateTimelineItems(c, n) ==
    /\ IF c \in TimelineContainers /\ timelineInstances[c] # 0
       THEN /\ timelines' = [timelines EXCEPT ![timelineInstances[c]].n = n,
                                              ![timelineInstances[c]].selection = 0]
            /\ RecordLast("updateTimelineItems", c, TRUE, "true")
       ELSE /\ UNCHANGED timelines
            /\ RecordLast("updateTimelineItems", c, FALSE, "false")
    /\ UNCHANGED <<timelineInstances, shipmentTimelinePlayback, intervals, wvars, tvars, fvars, pvars, gvars, mvars, dvars, hvars, rvars, kvars, lvars, nvars>>

destroyTimeline(c) ==
    /\ IF c \in TimelineContainers /\ timelineInstances[c] # 0
       THEN /\ timelines' = DestroyExisting(timelines, c)
            /\ timelineInstances' = [timelineInstances EXCEPT ![c] = 0]
            /\ RecordLast("destroyTimeline", c, TRUE, "true")
       ELSE /\ UNCHANGED <<timelines, timelineInstances>>
            /\ RecordLast("destroyTimeline", c, FALSE, "true")
    /\ UNCHANGED <<shipmentTimelinePlayback, intervals, wvars, tvars, fvars, pvars, gvars, mvars, dvars, hvars, rvars, kvars, lvars, nvars>>

destroyAllTimelines ==
    /\ timelines' = [i \in DOMAIN timelines |->
                        IF \E c \in TimelineContainers : timelineInstances[c] = i
                        THEN [timelines[i] EXCEPT !.destroyed = TRUE]
                        ELSE timelines[i]]
    /\ timelineInstances' = [c \in TimelineContainers |-> 0]
    /\ timelineDotNetReference' = 0
    /\ RecordLast("destroyAllTimelines", "all", \E c \in TimelineContainers : timelineInstances[c] # 0, "true")
    /\ UNCHANGED <<shipmentTimelinePlayback, intervals, keydownListeners, eventCall>>
    /\ UNCHANGED <<wvars, tvars, fvars, pvars, gvars, mvars, dvars, hvars, rvars, lvars, nvars>>

\* select, click, doubleClick, contextmenu, rangechange or rangechanged on a
\* timeline: every listener invokes the module variable when it is set
Timeline_event(i) ==
    /\ i \in DOMAIN timelines
    /\ ~timelines[i].destroyed
    /\ eventCall' = [op |-> "event", timeline |-> i, to |-> timelineDotNetReference,
                     own |-> timelines[i].ref, destroyed |-> FALSE]
    /\ UNCHANGED <<keydownListeners, timelineDotNetReference, vvars, lvars, nvars>>
    /\ UNCHANGED <<wvars, cvars, tvars, fvars, pvars, gvars, mvars, dvars, hvars, rvars, lvars, nvars>>

\* a key press outside an input: the listener bound to timeline i calls
\* timeline.getWindow()
Document_keydown(i) ==
    /\ i \in keydownListeners
    /\ eventCall' = [op |-> "keydown", timeline |-> i, to |-> 0, own |-> 0,
                     destroyed |-> timelines[i].destroyed]
    /\ UNCHANGED <<keydownListeners, timelineDotNetReference, vvars, lvars, nvars>>
    /\ UNCHANGED <<wvars, cvars, tvars, fvars, pvars, gvars, mvars, dvars, hvars, rvars, lvars, nvars>>

\* the timeline shipment playback is bound to, 0 when there is none
PlaybackTimeline ==
    IF shipmentTimelinePlayback.containerId \in TimelineContainers
    THEN timelineInstances[shipmentTimelinePlayback.containerId]
    ELSE 0

FreshHandle == Cardinality({h \in 1..MaxHandles : \E iv \in intervals : iv.h >= h}) + 1

playShipmentTimeline ==
    /\ LET t == PlaybackTimeline IN
       IF t = 0
       THEN /\ UNCHANGED <<shipmentTimelinePlayback, intervals>>
            /\ RecordLast("playShipmentTimeline", "shipment", FALSE, "false")
       ELSE IF timelines[t].n = 0
       THEN /\ UNCHANGED <<shipmentTimelinePlayback, intervals>>
            /\ RecordLast("playShipmentTimeline", "shipment", TRUE, "false")
       ELSE IF shipmentTimelinePlayback.isPlaying
       THEN /\ UNCHANGED <<shipmentTimelinePlayback, intervals>>
            /\ RecordLast("playShipmentTimeline", "shipment", TRUE, "true")
       ELSE /\ FreshHandle <= MaxHandles
            /\ shipmentTimelinePlayback' =
                  [shipmentTimelinePlayback EXCEPT
                      !.isPlaying = TRUE,
                      !.currentIndex = IF @ >= timelines[t].n THEN 0 ELSE @,
                      !.interval = FreshHandle]
            /\ intervals' = intervals \cup {[h |-> FreshHandle, timeline |-> t, n |-> timelines[t].n]}
            /\ RecordLast("playShipmentTimeline", "shipment", TRUE, "true")
    /\ UNCHANGED <<timelines, timelineInstances, wvars, tvars, fvars, pvars, gvars, mvars, dvars, hvars, rvars, kvars, lvars, nvars>>

\* clearInterval(shipmentTimelinePlayback.interval)
ClearPlaybackInterval == {iv \in intervals : iv.h # shipmentTimelinePlayback.interval}

pauseShipmentTimeline ==
    /\ intervals' = ClearPlaybackInterval
    /\ shipmentTimelinePlayback' =
          [shipmentTimelinePlayback EXCEPT !.interval = 0, !.isPlaying = FALSE]
    /\ RecordPos("pauseShipmentTimeline", "shipment", PlaybackTimeline # 0, "true",
                 shipmentTimelinePlayback.currentIndex)
    /\ UNCHANGED <<timelines, timelineInstances, wvars, tvars, fvars, pvars, gvars, mvars, dvars, hvars, rvars, kvars, lvars, nvars>>

\* timeline.setSelection([]) on the timeline playback is bound to, when registered
ClearSelection(tls) ==
    IF PlaybackTimeline # 0
    THEN [tls EXCEPT ![PlaybackTimeline].selection = 0]
    ELSE tls

stopShipmentTimeline ==
    /\ intervals' = ClearPlaybackInterval
    /\ shipmentTimelinePlayback' =
          [shipmentTimelinePlayback EXCEPT !.interval = 0, !.isPlaying = FALSE, !.currentIndex = 0]
    /\ timelines' = ClearSelection(timelines)
    /\ RecordPos("stopShipmentTimeline", "shipment", PlaybackTimeline # 0, "true",
                 shipmentTimelinePlayback.currentIndex)
    /\ UNCHANGED <<timelineInstances, wvars, tvars, fvars, pvars, gvars, mvars, dvars, hvars, rvars, kvars, lvars, nvars>>

destroyTbmlVisualizations ==
    /\ intervals' = ClearPlaybackInterval
    /\ timelines' = IF PlaybackTimeline # 0
                    THEN [ClearSelection(timelines) EXCEPT ![PlaybackTimeline].destroyed = TRUE]
                    ELSE timelines
    /\ timelineInstances' =
          IF PlaybackTimeline # 0
          THEN [timelineInstances EXCEPT ![shipmentTimelinePlayback.containerId] = 0]
          ELSE timelineInstances
    /\ shipmentTimelinePlayback' =
          [interval |-> 0, currentIndex |-> 0, isPlaying |-> FALSE, containerId |-> "null"]
    /\ RecordLast("destroyTbmlVisualizations", "shipment", PlaybackTimeline # 0, "true")
    /\ UNCHANGED <<wvars, tvars, fvars, pvars, gvars, mvars, dvars, hvars, rvars, kvars, lvars, nvars>>

\* One firing of the setInterval callback iv.  `timeline` and `items` are the
\* ones captured when playback started.  On a destroyed vis.Timeline the
\* library call either does nothing or throws (the callback then ends before
\* currentIndex++); both outcomes are allowed.
ShipmentTick(iv, libraryThrows) ==
    /\ iv \in intervals
    /\ IF shipmentTimelinePlayback.currentIndex < iv.n
       THEN /\ intervals' = intervals
            /\ IF timelines[iv.timeline].destroyed
               THEN /\ timelines' = timelines
                    /\ shipmentTimelinePlayback' =
                          IF libraryThrows
                          THEN shipmentTimelinePlayback
                          ELSE [shipmentTimelinePlayback EXCEPT !.currentIndex = @ + 1]
                    /\ RecordLast("ShipmentTick", "shipment", FALSE, "setSelectionOnDestroyed")
               ELSE /\ ~libraryThrows
                    /\ timelines' = [timelines EXCEPT ![iv.timeline].selection =
                                        shipmentTimelinePlayback.currentIndex + 1]
                    /\ shipmentTimelinePlayback' =
                          [shipmentTimelinePlayback EXCEPT !.currentIndex = @ + 1]
                    /\ RecordLast("ShipmentTick", "shipment", TRUE, "setSelection")
       ELSE \* reached the end: pauseShipmentTimeline()
            /\ ~libraryThrows
            /\ intervals' = ClearPlaybackInterval
            /\ shipmentTimelinePlayback' =
                  [shipmentTimelinePlayback EXCEPT !.interval = 0, !.isPlaying = FALSE]
            /\ timelines' = timelines
            /\ RecordLast("ShipmentTick", "shipment", TRUE, "paused")
    /\ UNCHANGED <<timelineInstances, wvars, tvars, fvars, pvars, gvars, mvars, dvars, hvars, rvars, kvars, lvars, nvars>>

NextVis ==
    \/ \E c \in TimelineContainerIds, n \in ItemCounts, u \in BOOLEAN : initializeEnhancedTimeline(c, n, u, 0, FALSE)
    \/ \E c \in TimelineContainerIds, n \in ItemCounts, u \in BOOLEAN : initializeBasicTimeline(c, n, u, 0)
    \/ \E c \in TimelineContainerIds, n \in ItemCounts, u \in BOOLEAN : initializeShipmentTimeline(c, n, u)
    \/ \E c \in TimelineContainerIds, n \in ItemCounts : updateTimelineItems(c, n)
    \/ \E c \in TimelineContainerIds : destroyTimeline(c)
    \/ destroyAllTimelines
    \/ playShipmentTimeline
    \/ pauseShipmentTimeline
    \/ stopShipmentTimeline
    \/ destroyTbmlVisualizations
    \/ \E iv \in intervals, b \in BOOLEAN : ShipmentTick(iv, b)

\* host calls into the vis.js timeline module, and its playback timer
SpecVis == InitAll /\ [][NextVis]_vars

NextEvents ==
    \/ \E c \in TimelineContainerIds, u \in BOOLEAN, dotNetRef \in 0..MaxRefs, useEnhancements \in BOOLEAN :
          initializeEnhancedTimeline(c, MaxItems, u, dotNetRef, useEnhancements)
    \/ \E c \in TimelineContainerIds, dotNetRef \in 0..MaxRefs :
          initializeBasicTimeline(c, MaxItems, TRUE, dotNetRef)
    \/ \E c \in TimelineContainerIds : destroyTimeline(c)
    \/ destroyAllTimelines
    \/ \E i \in DOMAIN timelines : Timeline_event(i)
    \/ \E i \in keydownListeners : Document_keydown(i)

\* the listeners of the vis.js timeline module and the handle they invoke
SpecEvents == InitAll /\ [][NextEvents]_vars

\* -------------------------------------------------------------------
\*  TimelineViz (toolkits/timelineViz.js): playback
\* -------------------------------------------------------------------
\* the events are one hundred time units apart after the sort of loadData;
\* d3.extent of them (of no events: [undefined, undefined], here <<0, 0>>)
timeExtent(v) == IF v.n = 0 THEN <<0, 0>> ELSE <<0, 100 * (v.n - 1)>>

\* render() begins with a new xScale whose domain is the extent of the events
SetScale(v) == [v EXCEPT !.domain = timeExtent(v)]

\* addPlaybackControls, called at the end of every render()
addPlaybackControls(v) == [v EXCEPT !.playbackIndex = 0, !.isPlaying = FALSE]

\* renderEvents: appends one event-point circle per event to eventGroup
renderEvents(v) == [v EXCEPT !.points = @ + v.n]

\* render() after the event elements were removed: fresh, undimmed elements
RenderFresh(v) == addPlaybackControls(renderEvents(SetScale([v EXCEPT !.highlight = 0, !.points = 0])))

\* filterByDateRange(startDate, endDate): the domain of the current xScale is
\* set, the elements are removed, and render() runs
filterByDateRange(v, startDate, endDate) ==
    RenderFresh([v EXCEPT !.domain = <<startDate, endDate>>, !.asked = <<startDate, endDate>>])

\* pause(): isPlaying = false; clearInterval(this.playbackTimer)
\* lastTick: the index, plus one, that the last tick since play, pause, stop
\* or destroy handed to onPlaybackTick
VizPauseState(v) == [v EXCEPT !.isPlaying = FALSE, !.lastTick = 0]

VizPauseTimers == vizTimers \ {viz.playbackTimer}

\* stop(): pause(); playbackIndex = 0; every event point back to opacity 1
VizStopState(v) == [VizPauseState(v) EXCEPT !.playbackIndex = 0, !.highlight = 0]

\* loadData: this.events is replaced, then render() appends the elements of
\* the new events; nothing removes the elements eventGroup already holds
Viz_loadData(n) ==
    /\ viz.points + n <= MaxPoints
    /\ viz' = addPlaybackControls(renderEvents(SetScale([viz EXCEPT !.n = n, !.loaded = TRUE])))
    /\ RecordLast("Viz_loadData", "viz", TRUE, "undefined")
    /\ UNCHANGED <<vizTimers, vizNextHandle, wvars, vvars, fvars, pvars, gvars, mvars, dvars, hvars, rvars, kvars, lvars, nvars>>

Viz_play ==
    /\ IF viz.isPlaying
       THEN /\ UNCHANGED <<viz, vizTimers, vizNextHandle>>
       ELSE /\ vizNextHandle <= MaxHandles
            /\ viz' = [viz EXCEPT !.isPlaying = TRUE, !.playbackIndex = 0,
                                  !.playbackTimer = vizNextHandle, !.lastTick = 0]
            /\ vizTimers' = vizTimers \cup {vizNextHandle}
            /\ vizNextHandle' = vizNextHandle + 1
    /\ RecordLast("Viz_play", "viz", TRUE, "undefined")
    /\ UNCHANGED <<wvars, vvars, fvars, pvars, gvars, mvars, dvars, hvars, rvars, kvars, lvars, nvars>>

\* one firing of the interval with handle h
Viz_tick(h) ==
    /\ h \in vizTimers
    /\ IF viz.playbackIndex >= viz.n
       THEN /\ viz' = VizStopState(viz)
            /\ vizTimers' = VizPauseTimers
            /\ RecordLast("Viz_tick", "viz", TRUE, "stopped")
       ELSE /\ viz' = [viz EXCEPT !.highlight = viz.playbackIndex + 1,
                                  !.lastTick = viz.playbackIndex + 1,
                                  !.playbackIndex = @ + 1]
            /\ vizTimers' = vizTimers
            /\ RecordLast("Viz_tick", "viz", TRUE, "onPlaybackTick")
    /\ UNCHANGED <<vizNextHandle, wvars, vvars, fvars, pvars, gvars, mvars, dvars, hvars, rvars, kvars, lvars, nvars>>

Viz_pause ==
    /\ viz' = VizPauseState(viz)
    /\ vizTimers' = VizPauseTimers
    /\ RecordPos("Viz_pause", "viz", TRUE, "undefined", viz.playbackIndex)
    /\ UNCHANGED <<vizNextHandle, wvars, vvars, fvars, pvars, gvars, mvars, dvars, hvars, rvars, kvars, lvars, nvars>>

Viz_stop ==
    /\ viz' = VizStopState(viz)
    /\ vizTimers' = VizPauseTimers
    /\ RecordPos("Viz_stop", "viz", TRUE, "undefined", viz.playbackIndex)
    /\ UNCHANGED <<vizNextHandle, wvars, vvars, fvars, pvars, gvars, mvars, dvars, hvars, rvars, kvars, lvars, nvars>>

\* filterByDateRange / resetZoom: this.xScale is null before the first
\* loadData (TypeError); afterwards the elements are removed and render() runs
Viz_rerender(op, v) ==
    /\ IF viz.loaded
       THEN /\ viz' = v
            /\ RecordLast(op, "viz", TRUE, "undefined")
       ELSE /\ UNCHANGED viz
            /\ RecordLast(op, "viz", TRUE, "throws")
    /\ UNCHANGED <<vizTimers, vizNextHandle, wvars, vvars, fvars, pvars, gvars, mvars, dvars, hvars, rvars, kvars, lvars, nvars>>

\* date ranges handed to filterByDateRange
DateRanges == {<<0, 50>>, <<25, 75>>}

Viz_filterByDateRange(startDate, endDate) ==
    Viz_rerender("Viz_filterByDateRange", filterByDateRange(viz, startDate, endDate))

\* resetZoom: xScale.domain(timeExtent), then the same removal and render()
Viz_resetZoom == Viz_rerender("Viz_resetZoom", RenderFresh([viz EXCEPT !.domain = timeExtent(viz)]))

Center(domain) == (domain[1] + domain[2]) \div 2

Range(domain) == domain[2] - domain[1]

\* zoomIn: 70 % of the current range around its centre
ZoomInDomain(domain) ==
    <<Center(domain) - ((Range(domain) * 7) \div 10) \div 2,
      Center(domain) + ((Range(domain) * 7) \div 10) \div 2>>

Max(a, b) == IF a >= b THEN a ELSE b

Min(a, b) == IF a <= b THEN a ELSE b

\* zoomOut: 130 % of the current range, clipped to the extent of the events
ZoomOutDomain(domain, extent) ==
    <<Max(Center(domain) - ((Range(domain) * 13) \div 10) \div 2, extent[1]),
      Min(Center(domain) + ((Range(domain) * 13) \div 10) \div 2, extent[2])>>

\* zoomIn: returns at once while xScale or timeExtent is unset, otherwise ends
\* in filterByDateRange
Viz_zoomIn ==
    /\ viz' = IF viz.loaded
              THEN filterByDateRange(viz, ZoomInDomain(viz.domain)[1], ZoomInDomain(viz.domain)[2])
              ELSE viz
    /\ RecordLast("Viz_zoomIn", "viz", TRUE, "undefined")
    /\ UNCHANGED <<vizTimers, vizNextHandle, wvars, vvars, fvars, pvars, gvars, mvars, dvars, hvars, rvars, kvars, lvars, nvars>>

\* zoomOut: as zoomIn, but it reads this.timeExtent[0].getTime(), and
\* d3.extent of no events is [undefined, undefined] (TypeError)
Viz_zoomOut ==
    /\ IF viz.loaded /\ viz.n = 0
       THEN /\ UNCHANGED viz
            /\ RecordLast("Viz_zoomOut", "viz", TRUE, "throws")
       ELSE /\ viz' = IF viz.loaded
                      THEN filterByDateRange(viz, ZoomOutDomain(viz.domain, timeExtent(viz))[1],
                                             ZoomOutDomain(viz.domain, timeExtent(viz))[2])
                      ELSE viz
            /\ RecordLast("Viz_zoomOut", "viz", TRUE, "undefined")
    /\ UNCHANGED <<vizTimers, vizNextHandle, wvars, vvars, fvars, pvars, gvars, mvars, dvars, hvars, rvars, kvars, lvars, nvars>>

\* the brush 'end' handler with a selection; the brush exists once render() ran
Viz_brush(startDate, endDate) ==
    /\ viz.loaded
    /\ ~viz.destroyed
    /\ viz' = RenderFresh([viz EXCEPT !.domain = <<startDate, endDate>>])
    /\ RecordLast("Viz_brush", "viz", TRUE, "onTimeRangeChange")
    /\ UNCHANGED <<vizTimers, vizNextHandle, wvars, vvars, fvars, pvars, gvars, mvars, dvars, hvars, rvars, kvars, lvars, nvars>>

Viz_destroy ==
    /\ viz' = [VizStopState(viz) EXCEPT !.destroyed = TRUE]
    /\ vizTimers' = VizPauseTimers
    /\ RecordLast("Viz_destroy", "viz", TRUE, "undefined")
    /\ UNCHANGED <<vizNextHandle, wvars, vvars, fvars, pvars, gvars, mvars, dvars, hvars, rvars, kvars, lvars, nvars>>

NextViz ==
    \/ \E n \in 0..MaxItems : Viz_loadData(n)
    \/ Viz_play
    \/ \E h \in vizTimers : Viz_tick(h)
    \/ Viz_pause
    \/ Viz_stop
    \/ \E range \in DateRanges : Viz_filterByDateRange(range[1], range[2])
    \/ Viz_resetZoom
    \/ Viz_zoomIn
    \/ Viz_zoomOut
    \/ \E range \in DateRanges : Viz_brush(range[1], range[2])
    \/ Viz_destroy

\* calls on one TimelineViz instance, and its playback timers
SpecViz == InitAll /\ [][NextViz]_vars

\* -------------------------------------------------------------------
\*  financialCrimeDashboardInterop.js: shipment timeline and its playback
\* -------------------------------------------------------------------
\* window.shipmentTimeline.destroy(); window.shipmentTimeline = null
FdDestroyCurrent(tls) ==
    IF shipmentTimeline # 0
    THEN [tls EXCEPT ![shipmentTimeline].destroyed = TRUE]
    ELSE tls

FD_initializeShipmentTimeline(c, n) ==
    /\ ContainerFound(c) => Len(fdTimelines) < MaxTimelines
    /\ IF ContainerFound(c)
       THEN /\ fdTimelines' = Append(FdDestroyCurrent(fdTimelines),
                                  [destroyed |-> FALSE, n |-> n, selection |-> 0, playInterval |-> 0])
            /\ shipmentTimeline' = Len(fdTimelines) + 1
            /\ RecordLast("FD_initializeShipmentTimeline", c, TRUE, "true")
       ELSE /\ fdTimelines' = FdDestroyCurrent(fdTimelines)
            /\ shipmentTimeline' = 0
            /\ RecordLast("FD_initializeShipmentTimeline", c, FALSE, "false")
    /\ UNCHANGED <<fdIntervals, fdNextHandle, wvars, vvars, tvars, pvars, gvars, mvars, dvars, hvars, rvars, kvars, lvars, nvars>>

\* the closure keeps currentIndex and the sorted copy of the items; the
\* timeline is looked up in window.shipmentTimeline at every tick
FD_playShipmentTimeline ==
    /\ IF shipmentTimeline = 0
       THEN /\ UNCHANGED <<fdTimelines, fdIntervals, fdNextHandle>>
            /\ RecordLast("FD_playShipmentTimeline", "shipment", FALSE, "false")
       ELSE IF fdTimelines[shipmentTimeline].n = 0
       THEN /\ UNCHANGED <<fdTimelines, fdIntervals, fdNextHandle>>
            /\ RecordLast("FD_playShipmentTimeline", "shipment", TRUE, "false")
       ELSE IF fdTimelines[shipmentTimeline].playInterval # 0
       THEN /\ UNCHANGED <<fdTimelines, fdIntervals, fdNextHandle>>
            /\ RecordLast("FD_playShipmentTimeline", "shipment", TRUE, "true")
       ELSE /\ fdNextHandle <= MaxHandles
            /\ fdTimelines' = [fdTimelines EXCEPT ![shipmentTimeline].playInterval = fdNextHandle]
            /\ fdIntervals' = fdIntervals \cup
                  {[h |-> fdNextHandle, currentIndex |-> 0, n |-> fdTimelines[shipmentTimeline].n]}
            /\ fdNextHandle' = fdNextHandle + 1
            /\ RecordLast("FD_playShipmentTimeline", "shipment", TRUE, "true")
    /\ UNCHANGED <<shipmentTimeline, wvars, vvars, tvars, pvars, gvars, mvars, dvars, hvars, rvars, kvars, lvars, nvars>>

\* clearInterval(window.shipmentTimeline._playInterval)
FdClearInterval == {iv \in fdIntervals : iv.h # fdTimelines[shipmentTimeline].playInterval}

\* One firing of the closure iv.  With window.shipmentTimeline null the
\* callback ends in a TypeError and the interval stays scheduled.  The ids
\* are item.id or `item-${index}`, so the selection lands on the same index
\* of whatever timeline the slot holds now, when it has that many items.
FD_tick(iv) ==
    /\ iv \in fdIntervals
    /\ IF shipmentTimeline = 0
       THEN /\ UNCHANGED <<fdTimelines, fdIntervals>>
            /\ RecordLast("FD_tick", "shipment", FALSE, "throws")
       ELSE IF iv.currentIndex < iv.n
       THEN /\ fdTimelines' = [fdTimelines EXCEPT ![shipmentTimeline].selection =
                                  IF iv.currentIndex + 1 <= fdTimelines[shipmentTimeline].n
                                  THEN iv.currentIndex + 1 ELSE 0]
            /\ fdIntervals' = (fdIntervals \ {iv}) \cup {[iv EXCEPT !.currentIndex = @ + 1]}
            /\ RecordLast("FD_tick", "shipment", TRUE, "setSelection")
       ELSE /\ fdIntervals' = FdClearInterval
            /\ fdTimelines' = [fdTimelines EXCEPT ![shipmentTimeline].playInterval = 0]
            /\ RecordLast("FD_tick", "shipment", TRUE, "cleared")
    /\ UNCHANGED <<shipmentTimeline, fdNextHandle, wvars, vvars, tvars, pvars, gvars, mvars, dvars, hvars, rvars, kvars, lvars, nvars>>

\* the index the running closure of the current timeline plays next; without
\* one, the next play starts a closure at 0
FdPosition ==
    IF shipmentTimeline # 0
       /\ \E iv \in fdIntervals : iv.h = fdTimelines[shipmentTimeline].playInterval
    THEN (CHOOSE iv \in fdIntervals : iv.h = fdTimelines[shipmentTimeline].playInterval).currentIndex
    ELSE 0

FD_pauseShipmentTimeline ==
    /\ IF shipmentTimeline = 0
       THEN /\ UNCHANGED <<fdTimelines, fdIntervals>>
            /\ RecordPos("FD_pauseShipmentTimeline", "shipment", FALSE, "false", FdPosition)
       ELSE /\ fdIntervals' = FdClearInterval
            /\ fdTimelines' = [fdTimelines EXCEPT ![shipmentTimeline].playInterval = 0]
            /\ RecordPos("FD_pauseShipmentTimeline", "shipment", TRUE, "true", FdPosition)
    /\ UNCHANGED <<shipmentTimeline, fdNextHandle, wvars, vvars, tvars, pvars, gvars, mvars, dvars, hvars, rvars, kvars, lvars, nvars>>

FD_stopShipmentTimeline ==
    /\ IF shipmentTimeline = 0
       THEN /\ UNCHANGED <<fdTimelines, fdIntervals>>
            /\ RecordPos("FD_stopShipmentTimeline", "shipment", FALSE, "false", FdPosition)
       ELSE /\ fdIntervals' = FdClearInterval
            /\ fdTimelines' = [fdTimelines EXCEPT ![shipmentTimeline].playInterval = 0,
                                                  ![shipmentTimeline].selection = 0]
            /\ RecordPos("FD_stopShipmentTimeline", "shipment", TRUE, "true", FdPosition)
    /\ UNCHANGED <<shipmentTimeline, fdNextHandle, wvars, vvars, tvars, pvars, gvars, mvars, dvars, hvars, rvars, kvars, lvars, nvars>>

FD_destroyTbmlVisualizations ==
    /\ fdTimelines' = FdDestroyCurrent(fdTimelines)
    /\ shipmentTimeline' = 0
    /\ RecordLast("FD_destroyTbmlVisualizations", "shipment", shipmentTimeline # 0, "true")
    /\ UNCHANGED <<fdIntervals, fdNextHandle, wvars, vvars, tvars, pvars, gvars, mvars, dvars, hvars, rvars, kvars, lvars, nvars>>

NextFin ==
    \/ \E c \in ContainerIds, n \in 0..MaxItems : FD_initializeShipmentTimeline(c, n)
    \/ FD_playShipmentTimeline
    \/ \E iv \in fdIntervals : FD_tick(iv)
    \/ FD_pauseShipmentTimeline
    \/ FD_stopShipmentTimeline
    \/ FD_destroyTbmlVisualizations

\* host calls into the financial dashboard's shipment timeline, and its timers
SpecFin == InitAll /\ [][NextFin]_vars

\* -------------------------------------------------------------------
\*  NetworkGraph.findShortestPath (incidentGeoMappingInterop.js)
\* -------------------------------------------------------------------
\* loadData gives every node without an id a random one, and d3.forceLink
\* rejects a link whose end is not a node id, so in a loaded graph the node
\* ids are truthy and every link joins two nodes
Nodes == 1..NumNodes

\* ids a caller passes: the node ids and one id that is not a node
PathIds == 1..(NumNodes + 1)

Link(a, b) == [source |-> a, target |-> b]

LinkSet == {Link(a, b) : a, b \in Nodes}

LinkSeqs == UNION {[1..k -> LinkSet] : k \in 0..MaxLinks}

\* the neighbour one link contributes while `current` is expanded, 0 for null
Neighbor_SourceOnly(link, current, visited) ==
    IF link.source = current /\ link.target \notin visited
    THEN link.target
    ELSE 0

Neighbor(link, current, visited) ==
    IF link.source = current /\ link.target \notin visited
    THEN link.target
    ELSE IF link.target = current /\ link.source \notin visited
    THEN link.source
    ELSE 0

\* this.links.forEach(...) from link i on: the search state it leaves
RECURSIVE ExpandLinks(_, _, _, _)
ExpandLinks(i, path, queue, visited) ==
    IF i > Len(links)
    THEN [queue |-> queue, visited |-> visited]
    ELSE LET neighbor == Neighbor(links[i], path[Len(path)], visited) IN
         IF neighbor # 0
         THEN ExpandLinks(i + 1, path, Append(queue, Append(path, neighbor)),
                          visited \cup {neighbor})
         ELSE ExpandLinks(i + 1, path, queue, visited)

\* the while loop over the queue of paths
RECURSIVE SearchQueue(_, _, _)
SearchQueue(queue, visited, targetId) ==
    IF queue = <<>>
    THEN Null
    ELSE LET path == Head(queue) IN
         IF path[Len(path)] = targetId
         THEN Returned(path)
         ELSE LET after == ExpandLinks(1, path, Tail(queue), visited) IN
              SearchQueue(after.queue, after.visited, targetId)

findShortestPath(sourceId, targetId) == SearchQueue(<<<<sourceId>>>>, {sourceId}, targetId)

\* a graph that loadData has loaded
GraphLoaded ==
    /\ links \in LinkSeqs
    /\ pathCall = NoPathCall

Graph_findShortestPath(sourceId, targetId) ==
    /\ pathCall' = [called |-> TRUE, source |-> sourceId, target |-> targetId,
                    result |-> findShortestPath(sourceId, targetId)]
    /\ UNCHANGED <<links, wvars, cvars, vvars, tvars, fvars, gvars, mvars, dvars, hvars, rvars, kvars, lvars, nvars>>

NextPath == \E sourceId, targetId \in PathIds : Graph_findShortestPath(sourceId, targetId)

\* findShortestPath calls on a NetworkGraph holding any loaded links
InitLoaded ==
    /\ WidgetsInit /\ VisInit /\ VizInit /\ FinInit /\ CallsInit /\ LoadInit /\ GeoInit /\ GraphLoaded
    /\ DetectInit /\ RefsInit /\ RegistriesInit /\ ListenersInit /\ LeafletInit
    /\ TimeoutsInit

SpecPath == InitLoaded /\ [][NextPath]_vars

\* -------------------------------------------------------------------
\*  NetworkGraph.loadData / render (incidentGeoMappingInterop.js)
\* -------------------------------------------------------------------
\* models: nodes 1..n, and links between ids of which MaxLoadNodes + 1 is
\* never a node
LoadNodeSets == {1..n : n \in 0..MaxLoadNodes}

LoadLinkSet == {Link(a, b) : a, b \in 1..(MaxLoadNodes + 1)}

LoadLinkSeqs == UNION {[1..k -> LoadLinkSet] : k \in 0..MaxLoadLinks}

\* d3.forceLink resolves both ends of every link to a node and throws
\* "node not found" for an id that no node has
LinksResolve(ns, ls) == \A i \in DOMAIN ls : ls[i].source \in ns /\ ls[i].target \in ns

\* loadData(data): this.nodes and this.links are assigned, then render()
\* starts a new force simulation (its timer runs from construction), hands
\* the links to d3.forceLink, and only afterwards assigns this.simulation and
\* joins the elements to the data
Graph_loadData(ns, ls) ==
    /\ loads < MaxLoads
    /\ loads' = loads + 1
    /\ graphNodes' = ns
    /\ links' = ls
    /\ simulations' = simulations \cup {loads + 1}
    /\ IF LinksResolve(ns, ls)
       THEN /\ simulation' = loads + 1
            /\ rendered' = [nodes |-> ns, links |-> ls]
       ELSE UNCHANGED <<simulation, rendered>>
    /\ loadCall' = [op |-> "loadData", nodes |-> ns, links |-> ls,
                    ok |-> LinksResolve(ns, ls),
                    repeat |-> (/\ loadCall.op = "loadData" /\ loadCall.ok
                                /\ loadCall.nodes = ns /\ loadCall.links = ls),
                    running |-> Cardinality(simulations)]
    /\ UNCHANGED <<pathCall, wvars, cvars, vvars, tvars, fvars, mvars, dvars, hvars, rvars, kvars, lvars, nvars>>

\* a simulation cools down (alpha falls below alphaMin) and stops its timer
Graph_simulationEnds(h) ==
    /\ h \in simulations
    /\ simulations' = simulations \ {h}
    /\ loadCall' = [loadCall EXCEPT !.op = "simulationEnds"]
    /\ UNCHANGED <<graphNodes, rendered, simulation, loads, pvars, wvars, cvars, vvars, tvars, fvars, mvars, dvars, hvars, rvars, kvars, lvars, nvars>>

NextLoad ==
    \/ \E ns \in LoadNodeSets, ls \in LoadLinkSeqs : Graph_loadData(ns, ls)
    \/ \E h \in simulations : Graph_simulationEnds(h)

\* loadData calls on one NetworkGraph instance
SpecLoad == InitAll /\ [][NextLoad]_vars

\* -------------------------------------------------------------------
\*  GeoMapViz markers (incidentGeoMappingInterop.js)
\* -------------------------------------------------------------------
\* numeric: both coordinates are numbers and not NaN
Location(lat, lng) == [latitude |-> lat, longitude |-> lng, numeric |-> TRUE]

NoCoordinates == [latitude |-> 0, longitude |-> 0, numeric |-> FALSE]

GeoLocations == {Location(lat, lng) : lat \in {-91, 90, 91}, lng \in {-181, 180}} \cup {NoCoordinates}

GeoLocationSeqs == UNION {[1..k -> GeoLocations] : k \in 0..MaxLocations}

\* the filter of addMarkers
isValid(location) ==
    /\ location.numeric
    /\ location.latitude >= -90
    /\ location.latitude <= 90
    /\ location.longitude >= -180
    /\ location.longitude <= 180

validLocations(locations) == SelectSeq(locations, isValid)

\* L.marker([lat, lng]) throws 'Invalid LatLng object' for a NaN or undefined
\* coordinate and accepts any number
MarkerCreated(location) == location.numeric

GeoMap_addMarkers(locations) ==
    /\ Len(mapMarkers) + Len(validLocations(locations)) <= MaxMarkers
    /\ mapMarkers' = mapMarkers \o validLocations(locations)
    /\ geoCall' = [op |-> "addMarkers", ret |-> "undefined"]
    /\ UNCHANGED <<clusters, wvars, cvars, vvars, tvars, fvars, pvars, gvars, dvars, hvars, rvars, kvars, lvars, nvars>>

GeoMap_addMarker(location) ==
    /\ Len(mapMarkers) < MaxMarkers
    /\ IF MarkerCreated(location)
       THEN /\ mapMarkers' = Append(mapMarkers, location)
            /\ geoCall' = [op |-> "addMarker", ret |-> "marker"]
       ELSE /\ UNCHANGED mapMarkers
            /\ geoCall' = [op |-> "addMarker", ret |-> "throws"]
    /\ UNCHANGED <<clusters, wvars, cvars, vvars, tvars, fvars, pvars, gvars, dvars, hvars, rvars, kvars, lvars, nvars>>

\* incidents.map(...) creates every marker first; they are added only when
\* this.clusters is set
GeoMap_addIncidentClusters(incidents) ==
    /\ Len(mapMarkers) + Len(incidents) <= MaxMarkers
    /\ IF \A i \in DOMAIN incidents : MarkerCreated(incidents[i])
       THEN /\ mapMarkers' = IF clusters THEN mapMarkers \o incidents ELSE mapMarkers
            /\ geoCall' = [op |-> "addIncidentClusters", ret |-> "undefined"]
       ELSE /\ UNCHANGED mapMarkers
            /\ geoCall' = [op |-> "addIncidentClusters", ret |-> "throws"]
    /\ UNCHANGED <<clusters, wvars, cvars, vvars, tvars, fvars, pvars, gvars, dvars, hvars, rvars, kvars, lvars, nvars>>

GeoMap_clearMarkers ==
    /\ mapMarkers' = <<>>
    /\ geoCall' = [op |-> "clearMarkers", ret |-> "undefined"]
    /\ UNCHANGED <<clusters, wvars, cvars, vvars, tvars, fvars, pvars, gvars, dvars, hvars, rvars, kvars, lvars, nvars>>

NextGeo ==
    \/ \E locations \in GeoLocationSeqs : GeoMap_addMarkers(locations)
    \/ \E location \in GeoLocations : GeoMap_addMarker(location)
    \/ \E incidents \in GeoLocationSeqs : GeoMap_addIncidentClusters(incidents)
    \/ GeoMap_clearMarkers

InitGeo ==
    /\ WidgetsInit /\ VisInit /\ VizInit /\ FinInit /\ GraphInit /\ LoadInit /\ CallsInit
    /\ DetectInit /\ RefsInit /\ RegistriesInit /\ ListenersInit /\ LeafletInit
    /\ TimeoutsInit
    /\ \E plugin \in BOOLEAN : GeoConstructed(plugin)

\* marker calls on one GeoMapViz instance, with and without the cluster plugin
SpecGeo == InitGeo /\ [][NextGeo]_vars

\* -------------------------------------------------------------------
\*  TimelineEnhancements.detectBursts / detectGaps (timeline-enhancements.js)
\* -------------------------------------------------------------------
\* start times of items, in half hours
TimeValues == {0, 1, 2, 3, 4, 52}

\* arrays of items; the id is the item's place in the array as first held
ItemSeqs ==
    UNION {{[i \in 1..k |-> [id |-> i, start |-> starts[i]]] : starts \in [1..k -> TimeValues]} :
           k \in 0..MaxEvents}

\* Array.prototype.sort with (a, b) => new Date(a.start) - new Date(b.start):
\* ascending by start, stable
RECURSIVE InsertByStart(_, _)
InsertByStart(sorted, item) ==
    IF sorted = <<>>
    THEN <<item>>
    ELSE IF sorted[Len(sorted)].start <= item.start
    THEN Append(sorted, item)
    ELSE Append(InsertByStart(SubSeq(sorted, 1, Len(sorted) - 1), item), sorted[Len(sorted)])

RECURSIVE SortByStart(_)
SortByStart(arr) ==
    IF arr = <<>>
    THEN <<>>
    ELSE InsertByStart(SortByStart(SubSeq(arr, 1, Len(arr) - 1)), arr[Len(arr)])

\* the inner loop of detectBursts: items from index j on that start less
\* than timeWindow after currentTime, up to the first that does not
RECURSIVE CountWithinWindow(_, _, _)
CountWithinWindow(sortedItems, currentTime, j) ==
    IF j > Len(sortedItems)
    THEN 0
    ELSE IF sortedItems[j].start - currentTime < TimeWindow
    THEN 1 + CountWithinWindow(sortedItems, currentTime, j + 1)
    ELSE 0

\* the outer loop of detectBursts from index i on
RECURSIVE BurstsFrom(_, _)
BurstsFrom(sortedItems, i) ==
    IF i > Len(sortedItems)
    THEN <<>>
    ELSE LET count == 1 + CountWithinWindow(sortedItems, sortedItems[i].start, i + 1) IN
         IF count >= BurstThreshold
         THEN <<[start |-> sortedItems[i].start, count |-> count,
                 items |-> SubSeq(sortedItems, i, i + count - 1)]>>
              \o BurstsFrom(sortedItems, i + 1)
         ELSE BurstsFrom(sortedItems, i + 1)

detectBursts(arr) == BurstsFrom(SortByStart(arr), 1)

\* the test of detectGaps on two consecutive start times
IsGap_AtLeast(currentTime, nextTime) == nextTime - currentTime >= GapThreshold

IsGap(currentTime, nextTime) == nextTime - currentTime > GapThreshold

\* the loop of detectGaps from index i on
RECURSIVE GapsFrom(_, _)
GapsFrom(sortedItems, i) ==
    IF i > Len(sortedItems) - 1
    THEN <<>>
    ELSE IF IsGap(sortedItems[i].start, sortedItems[i + 1].start)
    THEN <<[start |-> sortedItems[i].start, end |-> sortedItems[i + 1].start,
            duration |-> sortedItems[i + 1].start - sortedItems[i].start]>>
         \o GapsFrom(sortedItems, i + 1)
    ELSE GapsFrom(sortedItems, i + 1)

detectGaps(arr) == GapsFrom(SortByStart(arr), 1)

\* items.sort(...) sorts the caller's array in place
Detect_detectBursts ==
    /\ given' = items
    /\ items' = SortByStart(items)
    /\ detectCall' = [op |-> "detectBursts", bursts |-> detectBursts(items), gaps |-> <<>>]
    /\ UNCHANGED <<wvars, cvars, vvars, tvars, fvars, pvars, gvars, mvars, hvars, rvars, kvars, lvars, nvars>>

Detect_detectGaps ==
    /\ given' = items
    /\ items' = SortByStart(items)
    /\ detectCall' = [op |-> "detectGaps", bursts |-> <<>>, gaps |-> detectGaps(items)]
    /\ UNCHANGED <<wvars, cvars, vvars, tvars, fvars, pvars, gvars, mvars, hvars, rvars, kvars, lvars, nvars>>

\* addPatternDetection(timeline, dataset): works on the array dataset.get()
\* returns, a copy; the results are logged only
Detect_addPatternDetection ==
    /\ given' = items
    /\ items' = items
    /\ detectCall' = [op |-> "addPatternDetection", bursts |-> detectBursts(items),
                      gaps |-> detectGaps(SortByStart(items))]
    /\ UNCHANGED <<wvars, cvars, vvars, tvars, fvars, pvars, gvars, mvars, hvars, rvars, kvars, lvars, nvars>>

NextDetect ==
    \/ Detect_detectBursts
    \/ Detect_detectGaps
    \/ Detect_addPatternDetection

InitDetect ==
    /\ WidgetsInit /\ VisInit /\ VizInit /\ FinInit /\ GraphInit /\ LoadInit /\ GeoInit /\ CallsInit
    /\ RefsInit /\ RegistriesInit /\ ListenersInit /\ LeafletInit
    /\ TimeoutsInit
    /\ \E held \in ItemSeqs : DetectHolding(held)

\* detection calls on any array of items
SpecDetect == InitDetect /\ [][NextDetect]_vars

\* -------------------------------------------------------------------
\*  criminalTimelineInterop.js: the host's callback handle
\* -------------------------------------------------------------------
\* the DotNetObjectReferences of the host; it hands one to every initialize
HostRefs == 1..MaxRefs

\* a method call on handle ref, and whether dispose() had been called on it
RefCall(op, ref) == [op |-> op, ref |-> ref, disposed |-> ref \in disposedRefs]

\* stores the handle, destroys the existing timeline, then looks for the
\* container and constructs the TimelineViz
CT_initializeCriminalTimeline(c, dotNetRef) ==
    /\ dotNetReference' = dotNetRef
    /\ criminalTimeline' = ContainerFound(c)
    /\ UNCHANGED <<comparisonTimeline, disposedRefs, refCall>>
    /\ UNCHANGED <<wvars, cvars, vvars, tvars, fvars, pvars, gvars, mvars, dvars, rvars, kvars, lvars, nvars>>

\* a click on an event of the live timeline: the onEventClick option
CT_onEventClick ==
    /\ criminalTimeline
    /\ dotNetReference # 0
    /\ refCall' = RefCall("invokeMethodAsync", dotNetReference)
    /\ UNCHANGED <<dotNetReference, criminalTimeline, comparisonTimeline, disposedRefs>>
    /\ UNCHANGED <<wvars, cvars, vvars, tvars, fvars, pvars, gvars, mvars, dvars, rvars, kvars, lvars, nvars>>

\* destroys the existing comparison timeline, then looks for the container;
\* the comparison timeline is given no handle
CT_initializeComparisonTimeline(c) ==
    /\ comparisonTimeline' = ContainerFound(c)
    /\ UNCHANGED <<dotNetReference, criminalTimeline, disposedRefs, refCall>>
    /\ UNCHANGED <<wvars, cvars, vvars, tvars, fvars, pvars, gvars, mvars, dvars, rvars, kvars, lvars, nvars>>

CT_destroyCriminalTimelines ==
    /\ criminalTimeline' = FALSE
    /\ comparisonTimeline' = FALSE
    /\ IF dotNetReference # 0
       THEN /\ refCall' = RefCall("dispose", dotNetReference)
            /\ disposedRefs' = disposedRefs \cup {dotNetReference}
       ELSE /\ refCall' = [op |-> "none", ref |-> 0, disposed |-> FALSE]
            /\ UNCHANGED disposedRefs
    /\ dotNetReference' = 0
    /\ UNCHANGED <<wvars, cvars, vvars, tvars, fvars, pvars, gvars, mvars, dvars, rvars, kvars, lvars, nvars>>

NextRefs ==
    \/ \E c \in ContainerIds, dotNetRef \in HostRefs : CT_initializeCriminalTimeline(c, dotNetRef)
    \/ CT_onEventClick
    \/ \E c \in ContainerIds : CT_initializeComparisonTimeline(c)
    \/ CT_destroyCriminalTimelines

\* the criminal timeline module and the handle it was given
SpecRefs == InitAll /\ [][NextRefs]_vars

\* -------------------------------------------------------------------
\*  Focus and highlight
\* -------------------------------------------------------------------
\* node ids of the model the host loads, and an id that no node has
ModelNodes == {1, 2}

TargetIds == {1, 3}

\* this.nodes of a widget
NodesOf(w) == IF w.loaded THEN ModelNodes ELSE {}

ArgOf(w, nodeId) == IF nodeId \in NodesOf(w) THEN "present" ELSE "absent"

\* NetworkGraph.focusOnNode: an id no node has returns undefined; otherwise
\* the transform is stored in the svg's __zoom property and
\* transition.call is handed the selection, which is not a function
focusOnNode(ws, i, nodeId) ==
    IF nodeId \in NodesOf(ws[i]) THEN [ws EXCEPT ![i].zoom = nodeId] ELSE ws

focusOnNodeThrows(ws, i, nodeId) == nodeId \in NodesOf(ws[i])

\* criminalNetworkIntelligenceInterop.js focusOnNode(nodeId)
Criminal_focusOnNode(nodeId) ==
    /\ IF slots["criminalGraph"] # 0
       THEN /\ widgets' = focusOnNode(widgets, slots["criminalGraph"], nodeId)
            /\ RecordArg("Criminal_focusOnNode", "criminalGraph", TRUE,
                         IF focusOnNodeThrows(widgets, slots["criminalGraph"], nodeId) THEN "false" ELSE "true",
                         ArgOf(widgets[slots["criminalGraph"]], nodeId))
       ELSE /\ UNCHANGED widgets
            /\ RecordArg("Criminal_focusOnNode", "criminalGraph", FALSE, "false", "none")
    /\ UNCHANGED <<networkGraphs, graphInstances, slots, network, vvars, tvars, fvars, pvars, gvars, mvars, dvars, hvars, rvars, kvars, lvars, nvars>>

\* incidentGeoMappingInterop.js focusOnNode(graphId, nodeId): no try/catch
Geo_focusOnNode(id, nodeId) ==
    /\ IF graphInstances[id] # 0
       THEN /\ widgets' = focusOnNode(widgets, graphInstances[id], nodeId)
            /\ RecordArg("Geo_focusOnNode", id, TRUE,
                         IF focusOnNodeThrows(widgets, graphInstances[id], nodeId) THEN "throws" ELSE "undefined",
                         ArgOf(widgets[graphInstances[id]], nodeId))
       ELSE /\ UNCHANGED widgets
            /\ RecordArg("Geo_focusOnNode", id, FALSE, "undefined", "none")
    /\ UNCHANGED <<networkGraphs, graphInstances, slots, network, vvars, tvars, fvars, pvars, gvars, mvars, dvars, hvars, rvars, kvars, lvars, nvars>>

\* NetworkGraphInterop.focusNode: network.focus logs an id it cannot find;
\* network.selectNodes unselects everything, then throws a RangeError for it
NGI_focusNode(nodeId) ==
    /\ IF network # 0
       THEN /\ widgets' = [widgets EXCEPT
                              ![network].zoom = IF nodeId \in NodesOf(widgets[network]) THEN nodeId ELSE @,
                              ![network].selected = {nodeId} \cap NodesOf(widgets[network])]
            /\ RecordArg("NGI_focusNode", "network", TRUE,
                         IF nodeId \in NodesOf(widgets[network]) THEN "true" ELSE "false",
                         ArgOf(widgets[network], nodeId))
       ELSE /\ UNCHANGED widgets
            /\ RecordArg("NGI_focusNode", "network", FALSE, "false", "none")
    /\ UNCHANGED <<networkGraphs, graphInstances, slots, network, vvars, tvars, fvars, pvars, gvars, mvars, dvars, hvars, rvars, kvars, lvars, nvars>>

\* paths handed to highlightPath, and node id lists handed to highlightElements
Paths == {<<>>, <<1>>, <<1, 2>>}

PathSet(path) == {path[k] : k \in DOMAIN path}

SelectorOf(path) == IF path = <<>> THEN "empty" ELSE "nonempty"

\* NetworkGraph.highlightPath: returns at once for an empty path; otherwise
\* the circles of the path get opacity 1 and the others opacity 0.2
highlightPath(ws, i, path) ==
    IF path = <<>>
    THEN ws
    ELSE [ws EXCEPT ![i].emphasized = NodesOf(ws[i]) \cap PathSet(path),
                    ![i].dimmed = NodesOf(ws[i]) \ PathSet(path)]

\* toolkits/interop.js highlightPath(graphId, path)
Toolkit_highlightPath(id, path) ==
    /\ IF networkGraphs[id] # 0
       THEN /\ widgets' = highlightPath(widgets, networkGraphs[id], path)
            /\ RecordArg("Toolkit_highlightPath", id, TRUE, "undefined", SelectorOf(path))
       ELSE /\ UNCHANGED widgets
            /\ RecordArg("Toolkit_highlightPath", id, FALSE, "undefined", SelectorOf(path))
    /\ UNCHANGED <<networkGraphs, graphInstances, slots, network, vvars, tvars, fvars, pvars, gvars, mvars, dvars, hvars, rvars, kvars, lvars, nvars>>

\* NetworkGraphInterop.highlightElements(nodeIds, edgeIds) with no edge ids:
\* network.selectNodes unselects everything and selects the ids, throwing a
\* RangeError for one it cannot find; network.selectEdges([]) then unselects
\* everything again
NGI_highlightElements(nodeIds) ==
    /\ IF network # 0
       THEN /\ widgets' = [widgets EXCEPT ![network].selected = {}]
            /\ RecordArg("NGI_highlightElements", "network", TRUE,
                         IF PathSet(nodeIds) \subseteq NodesOf(widgets[network]) THEN "true" ELSE "false",
                         SelectorOf(nodeIds))
       ELSE /\ UNCHANGED widgets
            /\ RecordArg("NGI_highlightElements", "network", FALSE, "false", SelectorOf(nodeIds))
    /\ UNCHANGED <<networkGraphs, graphInstances, slots, network, vvars, tvars, fvars, pvars, gvars, mvars, dvars, hvars, rvars, kvars, lvars, nvars>>

\* -------------------------------------------------------------------
\*  The Leaflet wrapper (part_002)
\* -------------------------------------------------------------------
LeafletElements == {"m1", "m2"}

\* names handed to setMapType: the two base layers and a name of no layer
MapTypes == {"osm", "satellite", "terrain"}

\* a tile layer has a _url; markers and the trade route group have none
TileLayer(name) == [kind |-> name, url |-> TRUE, n |-> 0]

Marker(n) == [kind |-> "marker", url |-> FALSE, n |-> n]

TradeRoutes == [kind |-> "tradeRoutes", url |-> FALSE, n |-> 0]

LeafletRecord(op, ret) == leafletCall' = [op |-> op, ret |-> ret]

\* createMap: L.map throws for an element that holds a map already;
\* otherwise the global map is replaced, both base layers are made anew and
\* osm is added; currentBaseLayer is not assigned
LW_createMap(elementId) ==
    /\ IF elementId \in mapElements
       THEN /\ UNCHANGED <<leafletMap, mapElements, baseLayers, mapLayers>>
            /\ LeafletRecord("createMap", "throws")
       ELSE /\ leafletMap' = elementId
            /\ mapElements' = mapElements \cup {elementId}
            /\ baseLayers' = {"osm", "satellite"}
            /\ mapLayers' = {TileLayer("osm")}
            /\ LeafletRecord("createMap", "map")
    /\ UNCHANGED <<currentBaseLayer, tradeRouteLayer>>
    /\ UNCHANGED <<wvars, cvars, vvars, tvars, fvars, pvars, gvars, mvars, dvars, hvars, rvars, kvars, nvars>>

LW_setMapType(mapType) ==
    /\ LET removed == IF currentBaseLayer \in baseLayers
                      THEN mapLayers \ {TileLayer(currentBaseLayer)}
                      ELSE mapLayers
       IN IF mapType \in baseLayers
          THEN /\ mapLayers' = removed \cup {TileLayer(mapType)}
               /\ currentBaseLayer' = mapType
          ELSE /\ mapLayers' = removed
               /\ UNCHANGED currentBaseLayer
    /\ LeafletRecord("setMapType", "undefined")
    /\ UNCHANGED <<leafletMap, mapElements, baseLayers, tradeRouteLayer>>
    /\ UNCHANGED <<wvars, cvars, vvars, tvars, fvars, pvars, gvars, mvars, dvars, hvars, rvars, kvars, nvars>>

\* addMarker: L.marker(...).addTo(map) throws while map is undefined
LW_addMarker ==
    /\ Cardinality({l \in mapLayers : l.kind = "marker"}) < MaxMarkers
    /\ IF leafletMap = "none"
       THEN /\ UNCHANGED mapLayers
            /\ LeafletRecord("addMarker", "throws")
       ELSE /\ mapLayers' = mapLayers \cup
                               {Marker(Cardinality({l \in mapLayers : l.kind = "marker"}) + 1)}
            /\ LeafletRecord("addMarker", "marker")
    /\ UNCHANGED <<leafletMap, mapElements, baseLayers, currentBaseLayer, tradeRouteLayer>>
    /\ UNCHANGED <<wvars, cvars, vvars, tvars, fvars, pvars, gvars, mvars, dvars, hvars, rvars, kvars, nvars>>

\* clearMap: a layer is removed when it has no _url and neither
\* baseLayers.osm nor baseLayers.satellite is set
LW_clearMap ==
    /\ IF leafletMap = "none"
       THEN /\ UNCHANGED mapLayers
            /\ LeafletRecord("clearMap", "throws")
       ELSE /\ mapLayers' = {l \in mapLayers :
                                ~(~l.url /\ "osm" \notin baseLayers /\ "satellite" \notin baseLayers)}
            /\ LeafletRecord("clearMap", "undefined")
    /\ UNCHANGED <<leafletMap, mapElements, baseLayers, currentBaseLayer, tradeRouteLayer>>
    /\ UNCHANGED <<wvars, cvars, vvars, tvars, fvars, pvars, gvars, mvars, dvars, hvars, rvars, kvars, nvars>>

\* initializeTradeMap: makes the map with the osm layer only when there is
\* none, and the trade route group when there is none
LW_initializeTradeMap(elementId) ==
    /\ IF leafletMap = "none"
       THEN /\ leafletMap' = elementId
            /\ mapElements' = mapElements \cup {elementId}
            /\ baseLayers' = baseLayers \cup {"osm"}
            /\ mapLayers' = {TileLayer("osm"), TradeRoutes}
       ELSE /\ mapLayers' = IF tradeRouteLayer THEN mapLayers ELSE mapLayers \cup {TradeRoutes}
            /\ UNCHANGED <<leafletMap, mapElements, baseLayers>>
    /\ tradeRouteLayer' = TRUE
    /\ LeafletRecord("initializeTradeMap", "undefined")
    /\ UNCHANGED currentBaseLayer
    /\ UNCHANGED <<wvars, cvars, vvars, tvars, fvars, pvars, gvars, mvars, dvars, hvars, rvars, kvars, nvars>>

NextLeaflet ==
    \/ \E elementId \in LeafletElements : LW_createMap(elementId)
    \/ \E elementId \in LeafletElements : LW_initializeTradeMap(elementId)
    \/ \E mapType \in MapTypes : LW_setMapType(mapType)
    \/ LW_addMarker
    \/ LW_clearMap

\* host calls into the Leaflet wrapper
SpecLeaflet == InitAll /\ [][NextLeaflet]_vars

NextRegistry ==
    \/ \E c \in ContainerIds, id \in GraphIds : Toolkit_initializeNetworkGraph(c, id)
    \/ \E id \in GraphIds : Toolkit_destroyNetworkGraph(id)
    \/ \E c \in ContainerIds, id \in GraphIds : Toolkit_initializeTimeline(c, id)
    \/ \E id \in GraphIds : Toolkit_destroyTimeline(id)
    \/ \E c \in ContainerIds, id \in GraphIds : Toolkit_initializeGeoMap(c, id)
    \/ \E id \in GraphIds : Toolkit_destroyGeoMap(id)

\* the three registries of toolkits/interop.js
SpecRegistry == InitAll /\ [][NextRegistry]_vars

NextView ==
    \/ \E c \in ContainerIds, id \in GraphIds : Toolkit_initializeNetworkGraph(c, id)
    \/ \E id \in GraphIds : Toolkit_loadNetworkData(id)
    \/ \E id \in GraphIds, path \in Paths : Toolkit_highlightPath(id, path)
    \/ \E c \in ContainerIds, id \in GraphIds : Geo_initializeNetworkGraph(c, id)
    \/ \E id \in GraphIds : Geo_loadNetworkData(id)
    \/ \E id \in GraphIds, nodeId \in TargetIds : Geo_focusOnNode(id, nodeId)
    \/ \E c \in ContainerIds : Criminal_initializeCriminalNetwork(c)
    \/ \E nodeId \in TargetIds : Criminal_focusOnNode(nodeId)
    \/ \E c \in ContainerIds : NGI_initialize(c)
    \/ NGI_renderGraph
    \/ NGI_fallbackTimeout
    \/ \E nodeId \in TargetIds : NGI_focusNode(nodeId)
    \/ \E nodeIds \in Paths : NGI_highlightElements(nodeIds)

\* focus and highlight calls on the graph widgets
SpecView == InitAll /\ [][NextView]_vars

NextToolkit ==
    \/ \E c \in ContainerIds, id \in GraphIds : Toolkit_initializeNetworkGraph(c, id)
    \/ \E id \in GraphIds : Toolkit_loadNetworkData(id)
    \/ \E id \in GraphIds, l \in Layouts : Toolkit_changeNetworkLayout(id, l)
    \/ \E id \in GraphIds : Toolkit_destroyNetworkGraph(id)
    \/ \E c \in ContainerIds, id \in GraphIds : Geo_initializeNetworkGraph(c, id)
    \/ \E id \in GraphIds : Geo_loadNetworkData(id)
    \/ \E id \in GraphIds : Geo_destroyGraph(id)

NextSlots ==
    \/ \E c \in ContainerIds : Threat_initializeIntelligenceGraph(c)
    \/ \E c \in ContainerIds : Threat_initializeIntelligenceTimeline(c)
    \/ \E l \in Layouts : Threat_changeIntelligenceGraphLayout(l)
    \/ Threat_destroyIntelligenceVisualizations
    \/ \E c \in ContainerIds : Criminal_initializeCriminalNetwork(c)
    \/ \E l \in Layouts : Criminal_changeNetworkLayout(l)
    \/ Criminal_destroyCriminalNetwork
    \/ \E c \in ContainerIds : NGI_initialize(c)
    \/ NGI_renderGraph
    \/ NGI_fallbackTimeout
    \/ NGI_destroy

NextRender ==
    \/ \E c \in ContainerIds : NGI_initialize(c)
    \/ NGI_renderGraph
    \/ NGI_fallbackTimeout
    \/ NGI_destroy

\* NetworkGraphInterop: renderGraph, destroy and the fallback timeout
SpecRender == InitAll /\ [][NextRender]_vars

\* host calls into toolkits/interop.js and the graphInstances registry
SpecToolkit == InitAll /\ [][NextToolkit]_vars

\* host calls into the window.* slot modules and NetworkGraphInterop
SpecSlots == InitAll /\ [][NextSlots]_vars

\* -------------------------------------------------------------------
\*  Properties of the widget entry points
\* -------------------------------------------------------------------
\* entry points that construct a widget without tearing down a prior one
NoTeardownInits ==
    {"Toolkit_initializeNetworkGraph", "Threat_initializeIntelligenceGraph",
     "Threat_initializeIntelligenceTimeline"}

LiveOn(c, via) ==
    {i \in DOMAIN widgets :
        widgets[i].container = c /\ widgets[i].via = via /\ ~widgets[i].destroyed}

\* C1: after any calls of an initialize entry point on one container id, at
\* most one widget created by that entry point on that container is live
\* (every earlier one has had destroy() called).
C1_OneLivePerContainer ==
    \A c \in ExistingContainers, via \in NoTeardownInits : Cardinality(LiveOn(c, via)) <= 1

DestroyOps == {"Toolkit_destroyNetworkGraph", "Geo_destroyGraph", "NGI_destroy"}

\* a call that returned normally with a truthy status, or a void call that returned
Success(ret) == ret \in {"true", "undefined"}

\* C3: a destroy operation called on a live instance and then once more on the
\* same instance id returns success both times and does not throw.
C3_DestroyTwiceSucceeds ==
    (prev.op \in DestroyOps /\ prev.ready /\ last.op = prev.op /\ last.key = prev.key)
        => (Success(prev.ret) /\ Success(last.ret))

UseOps ==
    {"Toolkit_loadNetworkData", "Toolkit_changeNetworkLayout", "Geo_loadNetworkData",
     "Threat_changeIntelligenceGraphLayout", "Criminal_changeNetworkLayout", "NGI_renderGraph"}

\* C8: a load / layout call addressed to a widget that is not Ready returns
\* the failure value false or null.
C8_NotReadyReturnsFailure ==
    (last.op \in UseOps /\ ~last.ready) => last.ret \in {"false", "null"}

InitOps ==
    {"Toolkit_initializeNetworkGraph", "Geo_initializeNetworkGraph",
     "Threat_initializeIntelligenceGraph", "Threat_initializeIntelligenceTimeline",
     "Criminal_initializeCriminalNetwork", "NGI_initialize"}

\* C9: an initialize entry point called with a container id that resolves to
\* no element returns false or null instead of throwing.
C9_MissingContainerReturnsError ==
    (last.op \in InitOps /\ last.key = MissingContainer) => last.ret \in {"false", "null"}


C4_NoPlaybackOnDestroyedTimeline ==
    /\ \A iv \in intervals : ~timelines[iv.timeline].destroyed
    /\ last.ret # "setSelectionOnDestroyed"


\* -------------------------------------------------------------------
\*  Properties of TimelineViz playback
\* -------------------------------------------------------------------
\* C5: at most one playback interval of the TimelineViz instance is scheduled.
C5_AtMostOnePlaybackTimer == Cardinality(vizTimers) <= 1

\* C6: right after a pause or stop call of any playback implementation
\* returns, it has not thrown and no playback interval of that implementation
\* is scheduled, so no tick can fire before the next play.
C6_NoTimerAfterPauseOrStop ==
    /\ last.op \in {"Viz_pause", "Viz_stop"} => (last.ret # "throws" /\ vizTimers = {})
    /\ last.op \in {"pauseShipmentTimeline", "stopShipmentTimeline"} =>
          (last.ret = "true" /\ intervals = {})
    /\ (last.op \in {"FD_pauseShipmentTimeline", "FD_stopShipmentTimeline"} /\ last.ret = "true") =>
          fdIntervals = {}

\* C7: a pause call leaves the playback position where it found it; a stop
\* call leaves the position at the first event and the selection empty.
C7_PauseKeepsStopResets ==
    /\ last.op = "Viz_pause" => viz.playbackIndex = last.pos
    /\ last.op = "Viz_stop" => (viz.playbackIndex = 0 /\ viz.highlight = 0)
    /\ last.op = "pauseShipmentTimeline" => shipmentTimelinePlayback.currentIndex = last.pos
    /\ last.op = "stopShipmentTimeline" =>
          /\ shipmentTimelinePlayback.currentIndex = 0
          /\ PlaybackTimeline # 0 => timelines[PlaybackTimeline].selection = 0
    /\ (last.op = "FD_pauseShipmentTimeline" /\ last.ret = "true") => FdPosition = last.pos
    /\ (last.op = "FD_stopShipmentTimeline" /\ last.ret = "true") =>
          (FdPosition = 0 /\ fdTimelines[shipmentTimeline].selection = 0)

\* -------------------------------------------------------------------
\*  Properties of NetworkGraph.findShortestPath
\* -------------------------------------------------------------------
Joined(a, b) == \E i \in DOMAIN links : links[i] \in {Link(a, b), Link(b, a)}

\* the nodes at most k hops from a
RECURSIVE Within(_, _)
Within(a, k) ==
    IF k = 0
    THEN {a}
    ELSE LET near == Within(a, k - 1) IN
         near \cup {b \in Nodes : \E c \in near : Joined(c, b)}

Connected(a, b) == b \in Within(a, NumNodes)

Hops(a, b) == CHOOSE k \in 0..NumNodes : b \in Within(a, k) /\ \A j \in 0..(k - 1) : b \notin Within(a, j)

\* C10: for node ids source and target joined by a chain of links taken in
\* either direction, findShortestPath returns a path from source to target
\* whose consecutive nodes are joined by a link and whose number of hops is
\* the least possible; for source = target that path is [source].
C10_ShortestPathIsValidAndMinimal ==
    (/\ pathCall.called
     /\ pathCall.source \in Nodes
     /\ pathCall.target \in Nodes
     /\ Connected(pathCall.source, pathCall.target)) =>
        LET path == pathCall.result.path IN
        /\ ~pathCall.result.isNull
        /\ Len(path) >= 1
        /\ path[1] = pathCall.source
        /\ path[Len(path)] = pathCall.target
        /\ \A i \in 1..(Len(path) - 1) : Joined(path[i], path[i + 1])
        /\ Len(path) - 1 = Hops(pathCall.source, pathCall.target)
        /\ pathCall.source = pathCall.target => path = <<pathCall.source>>

\* a two-hop answer whose first hop runs against the direction of its link
C10_Witness ==
    /\ pathCall.called
    /\ pathCall.source \in Nodes
    /\ pathCall.target \in Nodes
    /\ ~pathCall.result.isNull
    /\ Len(pathCall.result.path) = 3
    /\ \E i \in DOMAIN links : links[i] = Link(pathCall.result.path[2], pathCall.result.path[1])
    /\ ~\E i \in DOMAIN links : links[i] = Link(pathCall.result.path[1], pathCall.result.path[2])

\* C11: when no chain of links joins source to target, or source or target is
\* not a node of the loaded graph, findShortestPath returns an empty sequence
\* (not null).
C11_NoPathReturnsEmpty ==
    (/\ pathCall.called
     /\ ~(/\ pathCall.source \in Nodes
          /\ pathCall.target \in Nodes
          /\ Connected(pathCall.source, pathCall.target))) =>
        (~pathCall.result.isNull /\ pathCall.result.path = <<>>)

\* -------------------------------------------------------------------
\*  Properties of NetworkGraph.loadData
\* -------------------------------------------------------------------
\* C12: when loadData is called with the model that the call just before it
\* loaded, the rendered nodes and links are again exactly those of the model,
\* and no more force simulations are running than before the second call.
C12_ReloadIsIdempotent ==
    (loadCall.op = "loadData" /\ loadCall.repeat) =>
        /\ loadCall.ok
        /\ rendered = [nodes |-> loadCall.nodes, links |-> loadCall.links]
        /\ Cardinality(simulations) <= loadCall.running

ValidLinks(ns, ls) == SelectSeq(ls, LAMBDA l : l.source \in ns /\ l.target \in ns)

\* C14: loadData of a model with links whose source or target is not a node
\* of the model completes, and renders every node and exactly the links
\* whose two ends are nodes.
C14_DanglingLinksExcluded ==
    (loadCall.op = "loadData" /\ ~LinksResolve(loadCall.nodes, loadCall.links)) =>
        /\ loadCall.ok
        /\ rendered = [nodes |-> loadCall.nodes,
                       links |-> ValidLinks(loadCall.nodes, loadCall.links)]

\* C13: after TimelineViz.loadData(M) returns, the event points held by the
\* timeline are exactly one per event of M, whatever was loaded before.
C13_LoadDataReplacesRendered == last.op = "Viz_loadData" => viz.points = viz.n

\* -------------------------------------------------------------------
\*  Properties of GeoMapViz markers
\* -------------------------------------------------------------------
\* C15: every marker on the map has numeric coordinates with latitude in
\* [-90, 90] and longitude in [-180, 180], and no marker-adding call throws.
C15_MarkersInRange ==
    /\ \A i \in DOMAIN mapMarkers : isValid(mapMarkers[i])
    /\ geoCall.ret # "throws"

\* -------------------------------------------------------------------
\*  Properties of burst and gap detection
\* -------------------------------------------------------------------
\* consecutive items i and i + 1 of a sorted array lie within the time window
Close(sorted, i) == sorted[i + 1].start - sorted[i].start < TimeWindow

\* i..j is a maximal run of items whose consecutive pairs lie within the window
MaximalRun(sorted, i, j) ==
    /\ i <= j
    /\ \A k \in i..(j - 1) : Close(sorted, k)
    /\ i > 1 => ~Close(sorted, i - 1)
    /\ j < Len(sorted) => ~Close(sorted, j)

ExpectedBursts(sorted) ==
    {[start |-> sorted[i].start, count |-> j - i + 1, items |-> SubSeq(sorted, i, j)] :
        <<i, j>> \in {p \in (DOMAIN sorted) \X (DOMAIN sorted) :
                        MaximalRun(sorted, p[1], p[2]) /\ p[2] - p[1] + 1 >= BurstThreshold}}

\* C16: detectBursts reports exactly the maximal runs of the time-sorted
\* items whose consecutive pairs lie within the window and whose length
\* reaches the threshold, each once.
C16_BurstsAreMaximalRuns ==
    detectCall.op = "detectBursts" =>
        /\ {detectCall.bursts[k] : k \in DOMAIN detectCall.bursts} = ExpectedBursts(SortByStart(given))
        /\ Len(detectCall.bursts) = Cardinality(ExpectedBursts(SortByStart(given)))

\* places i of a sorted array whose item and the next are more than the
\* threshold apart
GapPlaces(sorted) ==
    {i \in 1..(Len(sorted) - 1) : sorted[i + 1].start - sorted[i].start > GapThreshold}

\* the k-th smallest element of a set of places
NthPlace(places, k) == CHOOSE i \in places : Cardinality({j \in places : j < i}) = k - 1

\* C17: detectGaps returns, in time order, one record (start, end, duration =
\* end - start) for each pair of consecutive items of the array sorted by
\* start whose times differ by more than the threshold, and nothing else.
C17_GapsAreLongConsecutivePairs ==
    detectCall.op = "detectGaps" =>
        LET sorted == SortByStart(given)
            places == GapPlaces(sorted)
        IN /\ Len(detectCall.gaps) = Cardinality(places)
           /\ \A k \in DOMAIN detectCall.gaps :
                 LET i == NthPlace(places, k) IN
                 detectCall.gaps[k] = [start |-> sorted[i].start,
                                       end |-> sorted[i + 1].start,
                                       duration |-> sorted[i + 1].start - sorted[i].start]

\* an array that was not in time order, with one gap found
C17_Witness ==
    /\ detectCall.op = "detectGaps"
    /\ given # SortByStart(given)
    /\ Len(given) >= 3
    /\ Len(detectCall.gaps) = 1

\* C18: a detection call leaves the array it was given as it was, contents
\* and order.
C18_DetectionIsReadOnly ==
    detectCall.op \in {"detectBursts", "detectGaps", "addPatternDetection"} => items = given

\* -------------------------------------------------------------------
\*  Properties of the id-keyed registries
\* -------------------------------------------------------------------
\* C19: an initialize call of toolkits/interop.js never takes the registry
\* entry of a live instance: every live instance it created is still
\* registered under some id.
C19_LiveInstanceKeepsItsEntry ==
    \A i \in DOMAIN widgets :
        (widgets[i].via = "Toolkit_initializeNetworkGraph" /\ ~widgets[i].destroyed) =>
            \E id \in GraphIds : networkGraphs[id] = i

\* -------------------------------------------------------------------
\*  Properties of the host callback handle
\* -------------------------------------------------------------------
\* C20: no method is invoked on a handle after a teardown disposed it, and
\* no handle is disposed a second time.
C20_DisposedHandleIsNeverUsed ==
    refCall.op \in {"invokeMethodAsync", "dispose"} => ~refCall.disposed

\* -------------------------------------------------------------------
\*  Properties of focus and highlight
\* -------------------------------------------------------------------
FocusOps == {"Criminal_focusOnNode", "Geo_focusOnNode", "NGI_focusNode"}

\* C21: a focus call whose target id is no element of the widget's model
\* returns false and changes neither the view nor the selection.
C21_FocusOnAbsentReturnsFalse ==
    [][(last'.op \in FocusOps /\ last'.arg = "absent") =>
           (last'.ret = "false" /\ widgets' = widgets)]_vars

\* the widget a highlight call was routed to, 0 = none
HighlightTarget ==
    IF last.op = "Toolkit_highlightPath" THEN networkGraphs[last.key] ELSE network

\* C22: after a highlight call with an empty selector on a widget, no node of
\* it is emphasized, de-emphasized or selected.
C22_EmptySelectorClearsHighlight ==
    (last.op \in {"Toolkit_highlightPath", "NGI_highlightElements"} /\ last.arg = "empty" /\ last.ready) =>
        /\ widgets[HighlightTarget].emphasized = {}
        /\ widgets[HighlightTarget].dimmed = {}
        /\ widgets[HighlightTarget].selected = {}

\* -------------------------------------------------------------------
\*  Properties of the three registries of toolkits/interop.js
\* -------------------------------------------------------------------
\* destroy() was called in this step on widget i and on no other (i = 0: on none)
DestroyedOnly(i) ==
    /\ Len(widgets') = Len(widgets)
    /\ \A k \in DOMAIN widgets : widgets'[k].destroyed = (widgets[k].destroyed \/ k = i)

\* C23: destroyNetworkGraph(id), destroyTimeline(id) and destroyGeoMap(id)
\* remove only the entry for id and call destroy only on that instance; the
\* other entries of the three registries stay registered and not destroyed,
\* and a call with an unknown id changes nothing.
C23_DestroyIsIndependent ==
    [][\A id \in GraphIds :
          /\ (last'.op = "Toolkit_destroyNetworkGraph" /\ last'.key = id) =>
                /\ networkGraphs' = [networkGraphs EXCEPT ![id] = 0]
                /\ tkTimelines' = tkTimelines /\ geoMaps' = geoMaps
                /\ DestroyedOnly(networkGraphs[id])
                /\ networkGraphs[id] = 0 => widgets' = widgets
          /\ (last'.op = "Toolkit_destroyTimeline" /\ last'.key = id) =>
                /\ tkTimelines' = [tkTimelines EXCEPT ![id] = 0]
                /\ networkGraphs' = networkGraphs /\ geoMaps' = geoMaps
                /\ DestroyedOnly(tkTimelines[id])
                /\ tkTimelines[id] = 0 => widgets' = widgets
          /\ (last'.op = "Toolkit_destroyGeoMap" /\ last'.key = id) =>
                /\ geoMaps' = [geoMaps EXCEPT ![id] = 0]
                /\ networkGraphs' = networkGraphs /\ tkTimelines' = tkTimelines
                /\ DestroyedOnly(geoMaps[id])
                /\ geoMaps[id] = 0 => widgets' = widgets]_vars

\* a destroy call found its instance while another registry entry was live
C23_Witness ==
    /\ last.op \in {"Toolkit_destroyNetworkGraph", "Toolkit_destroyTimeline", "Toolkit_destroyGeoMap"}
    /\ last.ready
    /\ \E id \in GraphIds :
          \/ networkGraphs[id] # 0 /\ ~widgets[networkGraphs[id]].destroyed
          \/ tkTimelines[id] # 0 /\ ~widgets[tkTimelines[id]].destroyed
          \/ geoMaps[id] # 0 /\ ~widgets[geoMaps[id]].destroyed

\* -------------------------------------------------------------------
\*  Properties of the listeners of the vis.js timeline module
\* -------------------------------------------------------------------
LiveTimelines == {i \in DOMAIN timelines : ~timelines[i].destroyed}

\* C24: the registered keydown listeners never outnumber the live timelines,
\* and no key press calls into a destroyed timeline.
C24_NoKeydownListenerAfterDestroy ==
    /\ Cardinality(keydownListeners) <= Cardinality(LiveTimelines)
    /\ eventCall.op = "keydown" => ~eventCall.destroyed

\* C28: an interaction event of a timeline is delivered to the handle that
\* was passed to that timeline's own initialize call.
C28_EventGoesToOwnHandle ==
    eventCall.op = "event" => eventCall.to = eventCall.own

\* -------------------------------------------------------------------
\*  Properties of TimelineViz playback order and of its time domain
\* -------------------------------------------------------------------
\* C25: between play() and the next pause, stop or destroy, the ticks hand
\* the indices 0, 1, ..., n-1 to onPlaybackTick in this order, each once.
C25_TicksVisitEachEventOnce ==
    [][(last'.op = "Viz_tick" /\ last'.ret = "onPlaybackTick" /\ viz'.playbackIndex = viz.playbackIndex + 1) =>
           viz'.lastTick = viz.lastTick + 1]_vars

\* C27: after filterByDateRange(start, end) returns, the visible time domain
\* is [start, end].
C27_FilterSetsVisibleDomain ==
    (last.op = "Viz_filterByDateRange" /\ last.ret = "undefined") => viz.domain = viz.asked

\* -------------------------------------------------------------------
\*  Properties of the Leaflet wrapper
\* -------------------------------------------------------------------
\* C26: after clearMap, no layer other than a base tile layer is on the map,
\* and the base tile layers that were attached still are.
C26_ClearMapRemovesOverlays ==
    (leafletCall.op = "clearMap" /\ leafletCall.ret = "undefined") =>
        \A l \in mapLayers : l.url

\* C30: once the map is created, exactly one base tile layer is attached and
\* it is baseLayers[currentBaseLayer].
C30_ExactlyOneBaseLayer ==
    leafletMap # "none" => {l \in mapLayers : l.url} = {TileLayer(currentBaseLayer)}

\* -------------------------------------------------------------------
\*  Properties of the fallback timeout of NetworkGraphInterop.renderGraph
\* -------------------------------------------------------------------
\* C29: no timeout callback scheduled by renderGraph dereferences the
\* network reference after destroy() cleared it.
C29_NoTimeoutOnClearedNetwork ==
    timeoutCall.op = "timeout" => ~timeoutCall.networkIsNull

====
